---- MODULE Spec2Model ----
(***************************************************************************)
(* Archivist Magika ingestion pipeline: the staged dataset store           *)
(* (am_common.DatasetIO), the stage orchestrator (run_mvp) and the robust  *)
(* structural extraction stage (am_structural_robust).                     *)
(*                                                                         *)
(* Text is modelled as a sequence of atoms.  An atom is one character or   *)
(* one occurrence of a fixed substring:                                    *)
(*   "a"                   an ordinary character                           *)
(*   "LF"                  U+000A, the newline save writes after each line *)
(*   "LS"                  U+2028 LINE SEPARATOR                           *)
(*   "\\n"                 the two characters backslash-n of a JSON escape *)
(*   "{" "}"               the braces of a serialized JSON object          *)
(*   "42"                  a JSON scalar                                   *)
(*   DATASET_BEGIN/_END    the marker strings                              *)
(*   a segment id          the serialized "segment_id" member              *)
(***************************************************************************)
EXTENDS Integers, Sequences, FiniteSets, TLC

(***************************************************************************)
(* Bounds of the model.                                                    *)
(***************************************************************************)
MaxCards == 2
MaxForeignLines == 2
MaxPages == 2
MaxBooks == 2
MaxFiles == 2
MaxDocPages == 2
MaxTableRows == 2
MaxTableCols == 3
MaxRuns == 2

VARIABLES
    disk,       \* the dataset path: [exists, chars, mf] (mf: manifest_sha256 held by the footer)
    sv,         \* the last DatasetIO.save call: [status, cards, validate]
    ld,         \* the last DatasetIO.load call: [status, header, cards, audit, footer, warnings]
    ioPc        \* "idle" | "refused" | "saved" | "foreign" | "tampered" | "loaded"

ioVars == <<disk, sv, ld, ioPc>>

VARIABLES
    runPc,          \* run_single: "idle" | "running" | "done"
    cfg,            \* the orchestrator's settings: [validate_stages, dry_run]
    stages,         \* the planned sequence, _get_stage_sequence(start, end)
    stageIdx,       \* the position in stages of the next iteration of the loop
    current_input,  \* the path handed to the next stage
    results,        \* [stages: stage -> "none" | "success" | "failed", errors, warnings, status]
    invoked         \* the calls of _run_stage so far: <<[stage, input], ...>>

runVars == <<runPc, cfg, stages, stageIdx, current_input, results, invoked>>

VARIABLES
    pdfPc,      \* process_pdf: "idle" | "page" | "built" | "done"
    scfg,       \* the structural stage's settings: [extractors, skip_front_matter]
    total_pages,\* _get_page_count(pdf_path); 0 when it cannot be determined
    page_num,   \* the page of the current iteration (0-based)
    pdf_cards,  \* process_pdf's list cards: the cards appended so far
    tx,         \* TextExtractorChain.extract on the current page
    tb,         \* TableExtractorChain.extract on the current page
    pdf         \* process_pdf's effects: [normal, error, returned, raised_pages, doc_raised]

pdfVars == <<pdfPc, scfg, total_pages, page_num, pdf_cards, tx, tb, pdf>>

VARIABLES
    bPc,        \* batch driver: "down" | "attempt" | "save_open" | "save_write" | "final"
    bcfg,       \* config["batch"]: [continue_on_error, max_retries]
    ckDisk,     \* the checkpoint file: [kind, content], kind "absent", "partial"
                \* (truncated, no valid JSON) or "json"
    ck,         \* self.checkpoint
    pdfs,       \* the list get_pdf_files returned to process_batch
    bIdx,       \* position of pdf_path in pdfs
    bAttempt,   \* attempt of the retry loop
    bAfter,     \* what follows the _save_checkpoint in progress
    bLog        \* history of the run: the checkpoint it started from, the books
                \* known as processed, the calls of process_single_book, the exit

batchVars == <<bPc, bcfg, ckDisk, ck, pdfs, bIdx, bAttempt, bAfter, bLog>>

VARIABLES
    rb          \* run_batch: [pc, continue_on_error, start, end, total, idx,
                \*             processed, partial, failed, status, called]

VARIABLES
    ext         \* the extended stage: [pc, dedup, overlap_threshold, loaded, cards,
                \*                      duplicates, marked_count, gaps, overlaps]

VARIABLES
    pipe        \* one card on its way through the stages: [stage, input, card]

VARIABLES
    tbl         \* TableExtractorChain._extract_pdfplumber on one page:
                \* [pc, min_rows, min_cols, raw, result]

vars == <<ioVars, runVars, pdfVars, batchVars, rb, ext, pipe, tbl>>

(***************************************************************************)
(* Sequence helpers.                                                       *)
(***************************************************************************)
Range(s) == {s[i] : i \in 1..Len(s)}

Last(s) == s[Len(s)]

\* str.find: the first index of atom x in s, 0 when absent
IndexOf(s, x) ==
    IF x \in Range(s) THEN CHOOSE i \in 1..Len(s) : s[i] = x /\ \A j \in 1..(i-1) : s[j] # x
    ELSE 0

\* s.split(x, 1)[1], defined when x occurs in s
SplitAfter(s, x) == SubSeq(s, IndexOf(s, x) + 1, Len(s))

\* s.split(x, 1)[0]
SplitBefore(s, x) == IF IndexOf(s, x) = 0 THEN s ELSE SubSeq(s, 1, IndexOf(s, x) - 1)

RECURSIVE Flatten(_)
Flatten(ss) == IF ss = <<>> THEN <<>> ELSE Head(ss) \o Flatten(Tail(ss))

\* the sequences over S of length at most n
SeqUpTo(S, n) == UNION {[1..k -> S] : k \in 0..n}

(***************************************************************************)
(* am_common constants.                                                    *)
(***************************************************************************)
DATASET_BEGIN == "===DATASET_BEGIN==="
DATASET_END == "===DATASET_END==="
HEADER_ID == "__header__"
AUDIT_ID == "__audit__"
FOOTER_ID == "__footer__"
ReservedIds == {HEADER_ID, AUDIT_ID, FOOTER_ID}

\* f"{n:05d}" of _process_page and _create_error_card
SegmentIdOf(n) == IF n < 10 THEN "0000" \o ToString(n) ELSE "000" \o ToString(n)

PageIds == {SegmentIdOf(n) : n \in 1..MaxCards}

\* the sort key of load: str comparison of segment ids (digits sort before "_")
SidRank(sid) ==
    IF sid = AUDIT_ID THEN 1001
    ELSE IF sid = FOOTER_ID THEN 1002
    ELSE IF sid = HEADER_ID THEN 1003
    ELSE CHOOSE n \in 1..99 : SegmentIdOf(n) = sid

\* the empty dict {}
EmptyObj == [segment_id |-> "", segment |-> <<>>]

(***************************************************************************)
(* json.dumps(obj, ensure_ascii=False) and json.loads of one line.         *)
(* An object is [segment_id, segment]: its id and the text of its payload. *)
(***************************************************************************)
\* json.dumps escapes U+000A as backslash-n; with ensure_ascii=False U+2028
\* and every printable character are written as they are
EscapeAtom(c) == IF c = "LF" THEN "\\n" ELSE c

UnescapeAtom(c) == IF c = "\\n" THEN "LF" ELSE c

JsonDumps(obj) ==
    <<"{", obj.segment_id>> \o [i \in 1..Len(obj.segment) |-> EscapeAtom(obj.segment[i])] \o <<"}">>

\* the atoms json.loads accepts inside a string
StringAtoms == {"a", "x", "LS", "\\n", "book", DATASET_BEGIN, DATASET_END}

\* json.loads(line): "object" with the decoded object, "scalar" for valid JSON
\* that is no object, "error" for json.JSONDecodeError
JsonLoads(line) ==
    IF line = <<"42">> THEN [kind |-> "scalar", obj |-> EmptyObj]
    ELSE IF /\ Len(line) >= 3
            /\ Head(line) = "{"
            /\ Last(line) = "}"
            /\ line[2] \in ReservedIds \cup {SegmentIdOf(n) : n \in 1..99}
            /\ \A i \in 3..(Len(line) - 1) : line[i] \in StringAtoms
         THEN [kind |-> "object",
               obj |-> [segment_id |-> line[2],
                        segment |-> [i \in 1..(Len(line) - 3) |-> UnescapeAtom(line[i + 2])]]]
    ELSE [kind |-> "error", obj |-> EmptyObj]

(***************************************************************************)
(* manifest_sha256(lines): SHA-256 of the stream line_1 LF line_2 LF ...   *)
(* The digest is identified with the stream it is computed over.           *)
(***************************************************************************)
manifest_sha256(lines) == Flatten([i \in 1..Len(lines) |-> lines[i] \o <<"LF">>])

(***************************************************************************)
(* str.strip and str.splitlines.                                           *)
(***************************************************************************)
IsSpace(c) == c \in {"LF", "LS"}

IsLineBreak(c) == c \in {"LF", "LS"}

RECURSIVE LStrip(_)
LStrip(s) == IF s # <<>> /\ IsSpace(Head(s)) THEN LStrip(Tail(s)) ELSE s

RECURSIVE RStrip(_)
RStrip(s) == IF s # <<>> /\ IsSpace(Last(s)) THEN RStrip(SubSeq(s, 1, Len(s) - 1)) ELSE s

Strip(s) == RStrip(LStrip(s))

FirstBreak(s) ==
    IF \E i \in 1..Len(s) : IsLineBreak(s[i])
    THEN CHOOSE i \in 1..Len(s) : IsLineBreak(s[i]) /\ \A j \in 1..(i-1) : ~IsLineBreak(s[j])
    ELSE 0

RECURSIVE Splitlines(_)
Splitlines(s) ==
    IF s = <<>> THEN <<>>
    ELSE IF FirstBreak(s) = 0 THEN <<s>>
    ELSE <<SubSeq(s, 1, FirstBreak(s) - 1)>> \o Splitlines(SubSeq(s, FirstBreak(s) + 1, Len(s)))

(***************************************************************************)
(* list.sort(key=segment_id): a stable insertion sort.                     *)
(***************************************************************************)
RECURSIVE InsertBySid(_, _)
InsertBySid(sorted, c) ==
    IF sorted = <<>> THEN <<c>>
    ELSE IF SidRank(c.segment_id) < SidRank(Head(sorted).segment_id) THEN <<c>> \o sorted
    ELSE <<Head(sorted)>> \o InsertBySid(Tail(sorted), c)

RECURSIVE SortBySid(_)
SortBySid(cs) ==
    IF cs = <<>> THEN <<>>
    ELSE InsertBySid(SortBySid(SubSeq(cs, 1, Len(cs) - 1)), Last(cs))

(***************************************************************************)
(* DatasetIO.validate_structure(header, cards) with stage None.            *)
(* A header is the text of its members: <<>> is the empty dict.            *)
(***************************************************************************)
CardHasReservedId(card) == card.segment_id \in ReservedIds

validate_structure(header, cards) ==
    (IF header = <<>> THEN {"Missing header"} ELSE {})
    \cup (IF cards = <<>> THEN {"No cards found"} ELSE {})
    \cup {"reserved segment_id" : i \in {j \in 1..Len(cards) : CardHasReservedId(cards[j])}}

(***************************************************************************)
(* DatasetIO.save                                                          *)
(***************************************************************************)
\* the lines the manifest is computed over: header, cards, audit (when given)
SaveLines(header, cards, withAudit) ==
    <<JsonDumps([segment_id |-> HEADER_ID, segment |-> header])>>
    \o [i \in 1..Len(cards) |-> JsonDumps(cards[i])]
    \o (IF withAudit THEN <<JsonDumps([segment_id |-> AUDIT_ID, segment |-> <<>>])>> ELSE <<>>)

FooterLine == JsonDumps([segment_id |-> FOOTER_ID, segment |-> <<>>])

\* the characters save writes to the path
SaveChars(lines) ==
    <<DATASET_BEGIN, "LF">> \o manifest_sha256(lines) \o FooterLine \o <<"LF", DATASET_END, "LF">>

Min2(a, b) == IF a < b THEN a ELSE b

SaveRaises(header, cards, validate) == validate /\ validate_structure(header, cards) # {}

(***************************************************************************)
(* DatasetIO.load                                                          *)
(***************************************************************************)
NoLoad == [from |-> "none", status |-> "none", header |-> EmptyObj, cards |-> <<>>, audit |-> EmptyObj,
           footer |-> EmptyObj, warnings |-> 0]

\* the body: raw.split(BEGIN, 1)[1].split(END, 1)[0].strip().splitlines()
BodyLines(chars) == Splitlines(Strip(SplitBefore(SplitAfter(chars, DATASET_BEGIN), DATASET_END)))

\* one iteration of the parsing loop, acc the result so far
ParseLine(acc, line) ==
    IF acc.status # "ok" \/ Strip(line) = <<>> THEN acc
    ELSE LET r == JsonLoads(line) IN
         IF r.kind = "error" THEN [acc EXCEPT !.warnings = @ + 1]
         ELSE IF r.kind = "scalar" THEN [acc EXCEPT !.status = "AttributeError"]
         ELSE IF r.obj.segment_id = HEADER_ID THEN [acc EXCEPT !.header = r.obj]
         ELSE IF r.obj.segment_id = AUDIT_ID THEN [acc EXCEPT !.audit = r.obj]
         ELSE IF r.obj.segment_id = FOOTER_ID THEN [acc EXCEPT !.footer = r.obj]
         ELSE [acc EXCEPT !.cards = Append(@, r.obj)]

RECURSIVE ParseLines(_, _)
ParseLines(acc, lines) ==
    IF lines = <<>> THEN acc ELSE ParseLines(ParseLine(acc, Head(lines)), Tail(lines))

MarkersMissing(chars) == DATASET_BEGIN \notin Range(chars) \/ DATASET_END \notin Range(chars)

LoadResult(d) ==
    IF ~d.exists THEN [NoLoad EXCEPT !.status = "FileNotFoundError"]
    ELSE IF MarkersMissing(d.chars) THEN [NoLoad EXCEPT !.status = "ValueError"]
    ELSE LET p == ParseLines([NoLoad EXCEPT !.status = "ok"], BodyLines(d.chars)) IN
         IF p.status = "ok" THEN [p EXCEPT !.cards = SortBySid(@)]
         ELSE [NoLoad EXCEPT !.status = p.status]

(***************************************************************************)
(* Inputs of the dataset store.                                            *)
(***************************************************************************)
\* page texts: empty, plain, with a newline, with U+2028, quoting the end marker
Texts == {<<>>, <<"a">>, <<"a", "LF", "a">>, <<"a", "LS", "a">>, <<"a", DATASET_END>>}

CardIds == PageIds \cup {HEADER_ID}

Cards == [segment_id : CardIds, segment : Texts]

Headers == {<<>>, <<"book">>}

\* lines another writer (or an editor) may leave in a dataset file
ForeignLines ==
    { <<"{", SegmentIdOf(1), "a", "}">>,    \* a card
      <<"{", SegmentIdOf(2), "}">>,         \* a card
      <<"{", SegmentIdOf(1), "a">>,         \* truncated: JSONDecodeError
      <<"42">> }                            \* valid JSON, no object

NoDisk == [exists |-> FALSE, chars |-> <<>>, mf |-> <<>>]

NoSave == [status |-> "none", header |-> <<>>, cards |-> <<>>, validate |-> FALSE]

InitIO ==
    /\ disk = NoDisk
    /\ sv = NoSave
    /\ ld = NoLoad
    /\ ioPc = "idle"

\* DatasetIO.save(path, header, cards, audit, validate=...)
Save ==
    \E header \in Headers, cards \in SeqUpTo(Cards, MaxCards), withAudit \in BOOLEAN,
       validate \in BOOLEAN :
        /\ ioPc = "idle"
        /\ IF SaveRaises(header, cards, validate)
           THEN /\ sv' = [status |-> "ValueError", header |-> header, cards |-> cards,
                            validate |-> validate]
                /\ ioPc' = "refused"
                /\ UNCHANGED disk
           ELSE /\ sv' = [status |-> "ok", header |-> header, cards |-> cards, validate |-> validate]
                /\ disk' = [exists |-> TRUE,
                            chars |-> SaveChars(SaveLines(header, cards, withAudit)),
                            mf |-> manifest_sha256(SaveLines(header, cards, withAudit))]
                /\ ioPc' = "saved"
        /\ ld' = NoLoad
        /\ UNCHANGED <<runVars, pdfVars, batchVars, rb, ext, pipe, tbl>>

\* what the file holds after the first k write calls of save: the begin
\* marker, then one call per line, then the footer line, then the end marker
WrittenChars(lines, k) ==
    IF k = 0 THEN <<>>
    ELSE <<DATASET_BEGIN, "LF">>
         \o manifest_sha256(SubSeq(lines, 1, Min2(k - 1, Len(lines))))
         \o (IF k >= Len(lines) + 2 THEN FooterLine \o <<"LF">> ELSE <<>>)
         \o (IF k >= Len(lines) + 3 THEN <<DATASET_END, "LF">> ELSE <<>>)

\* save on a process that stops inside "with open(path, 'w')": the path was
\* opened for writing and k of the write calls reached the file
SaveInterrupted ==
    \E header \in Headers, cards \in SeqUpTo(Cards, MaxCards), withAudit \in BOOLEAN :
        \E k \in 0..(Len(SaveLines(header, cards, withAudit)) + 2) :
            /\ ioPc = "idle"
            /\ ~SaveRaises(header, cards, TRUE)
            /\ sv' = [status |-> "stopped", header |-> header, cards |-> cards, validate |-> TRUE]
            /\ disk' = [exists |-> TRUE,
                        chars |-> WrittenChars(SaveLines(header, cards, withAudit), k),
                        mf |-> manifest_sha256(SaveLines(header, cards, withAudit))]
            /\ ioPc' = "stopped"
            /\ ld' = NoLoad
            /\ UNCHANGED <<runVars, pdfVars, batchVars, rb, ext, pipe, tbl>>

\* the positions of the characters of the body lines (header, cards, audit)
\* in a file save wrote: after the begin marker, before the footer line
BodyPositions(chars) == 3..(Len(chars) - Len(FooterLine) - 4)

\* one character of a body line is overwritten with "x" after save
Tamper ==
    \E i \in BodyPositions(disk.chars) :
        /\ ioPc = "saved"
        /\ disk.chars[i] \in {"a", "book", "\\n", "LS"}
        /\ disk' = [disk EXCEPT !.chars[i] = "x"]
        /\ ioPc' = "tampered"
        /\ UNCHANGED <<sv, ld>>
        /\ UNCHANGED <<runVars, pdfVars, batchVars, rb, ext, pipe, tbl>>

\* a dataset file that was not written by save
WriteForeign ==
    \E lines \in SeqUpTo(ForeignLines, MaxForeignLines), hasBegin \in BOOLEAN, hasEnd \in BOOLEAN :
        /\ ioPc = "idle"
        /\ disk' = [exists |-> TRUE,
                    chars |-> (IF hasBegin THEN <<DATASET_BEGIN, "LF">> ELSE <<>>)
                              \o manifest_sha256(lines)
                              \o (IF hasEnd THEN <<DATASET_END, "LF">> ELSE <<>>),
                    mf |-> <<>>]
        /\ sv' = NoSave
        /\ ld' = NoLoad
        /\ ioPc' = "foreign"
        /\ UNCHANGED <<runVars, pdfVars, batchVars, rb, ext, pipe, tbl>>

\* DatasetIO.load(path)
Load ==
    /\ ioPc \in {"idle", "refused", "saved", "foreign", "tampered", "merged"}
    /\ ld' = [LoadResult(disk) EXCEPT !.from = ioPc]
    /\ ioPc' = "loaded"
    /\ UNCHANGED <<disk, sv>>
    /\ UNCHANGED <<runVars, pdfVars, batchVars, rb, ext, pipe, tbl>>

\* the datasets the pipeline hands to merge_datasets: a header and the cards
\* of the pages 1..n of a book, as the structural stage numbers them
PageCards(n) == [i \in 1..n |-> [segment_id |-> SegmentIdOf(i), segment |-> <<"a">>]]

BookDatasets == {[header |-> <<"book">>, cards |-> PageCards(n)] : n \in 0..MaxCards}

\* all_cards of merge_datasets: the cards of the datasets, in order
RECURSIVE AllCards(_)
AllCards(datasets) ==
    IF datasets = <<>> THEN <<>>
    ELSE AllCards(SubSeq(datasets, 1, Len(datasets) - 1)) \o Last(datasets).cards

\* DatasetIO.merge_datasets(datasets, output_path, merge_headers): the
\* merged cards are saved under the first header, with validation
MergeDatasets ==
    \E datasets \in SeqUpTo(BookDatasets, 2) \ {<<>>}, merge_headers \in BOOLEAN :
        LET merged_header == IF merge_headers THEN datasets[1].header \o <<"x">>
                             ELSE datasets[1].header
            all_cards == AllCards(datasets)
        IN
        /\ ioPc = "idle"
        /\ IF SaveRaises(merged_header, all_cards, TRUE)
           THEN /\ sv' = [status |-> "ValueError", header |-> merged_header, cards |-> all_cards,
                          validate |-> TRUE]
                /\ ioPc' = "refused"
                /\ UNCHANGED disk
           ELSE /\ sv' = [status |-> "ok", header |-> merged_header, cards |-> all_cards,
                          validate |-> TRUE]
                /\ disk' = [exists |-> TRUE,
                            chars |-> SaveChars(SaveLines(merged_header, all_cards, FALSE)),
                            mf |-> manifest_sha256(SaveLines(merged_header, all_cards, FALSE))]
                /\ ioPc' = "merged"
        /\ ld' = NoLoad
        /\ UNCHANGED <<runVars, pdfVars, batchVars, rb, ext, pipe, tbl>>

NextIO == Save \/ Tamper \/ WriteForeign \/ Load \/ MergeDatasets \/ SaveInterrupted


(***************************************************************************)
(* run_mvp.PipelineOrchestrator.run_single                                 *)
(***************************************************************************)
STRUCTURAL == "structural"
STRUCTURE_DETECT == "structure_detect"
SUMMARIZE == "summarize"
EXTENDED == "extended"
FINALIZE == "finalize"
CHUNK == "chunk"
EMBED == "embed"

\* PipelineStage.ALL
ALL == <<STRUCTURAL, STRUCTURE_DETECT, SUMMARIZE, EXTENDED, FINALIZE, CHUNK, EMBED>>

StageNames == Range(ALL)

StageIndex(stage) == CHOOSE i \in 1..Len(ALL) : ALL[i] = stage

\* _get_stage_sequence(start, end), for start not after end
StageSequence(start, end) == SubSeq(ALL, StageIndex(start), StageIndex(end))

is_critical_stage_no_finalize(stage) == stage \in {STRUCTURAL}

\* _is_critical_stage
is_critical_stage(stage) == stage \in {STRUCTURAL, FINALIZE}

\* the path a stage returns: a file of the stage's own output directory
StageOutput(stage) == "data/" \o stage

INPUT_PATH == "input.pdf"

next_input_always(cur, stage, outcome) == StageOutput(stage)

\* current_input after an iteration: the stage's result when it returned
next_input(cur, stage, outcome) == IF outcome = "ok" THEN StageOutput(stage) ELSE cur

\* whether the iteration appends to results['warnings']: the validator's
\* verdict is invalid, or it raised and _validate_output answered valid=False
ValidationWarns(stage, verdict) ==
    cfg.validate_stages /\ stage # EMBED /\ verdict \in {"invalid", "raises"}

\* the final status of run_single
FinalStatus(nErrors, nStages) ==
    IF nErrors = 0 THEN "completed"
    ELSE IF nErrors < nStages THEN "partial"
    ELSE "failed"

NoResults == [stages |-> [s \in StageNames |-> "none"], errors |-> <<>>, warnings |-> <<>>,
              status |-> "none"]

InitRun ==
    /\ runPc = "idle"
    /\ cfg = [validate_stages |-> TRUE, dry_run |-> FALSE]
    /\ stages = <<>>
    /\ stageIdx = 1
    /\ current_input = INPUT_PATH
    /\ results = NoResults
    /\ invoked = <<>>

\* run_single up to the loop: dry run, or the stage sequence
RunSingleStart ==
    \E start \in StageNames, end \in StageNames, validate_stages \in BOOLEAN, dry_run \in BOOLEAN :
        /\ runPc = "idle"
        /\ cfg' = [validate_stages |-> validate_stages, dry_run |-> dry_run]
        /\ IF StageIndex(start) > StageIndex(end)
           THEN \* _get_stage_sequence raises ValueError
                /\ runPc' = "done"
                /\ results' = [results EXCEPT !.status = "ValueError"]
                /\ UNCHANGED stages
           ELSE IF dry_run
           THEN /\ runPc' = "done"
                /\ results' = [results EXCEPT !.status = "dry_run"]
                /\ stages' = StageSequence(start, end)
           ELSE /\ runPc' = "running"
                /\ stages' = StageSequence(start, end)
                /\ UNCHANGED results
        /\ UNCHANGED <<stageIdx, current_input, invoked>>
        /\ UNCHANGED <<ioVars, pdfVars, batchVars, rb, ext, pipe, tbl>>

\* the verdict of the between-stage validation of an iteration, "none" when
\* _validate_output is not called
validation_verdict(stage, outcome, verdict) ==
    IF cfg.validate_stages /\ stage # EMBED /\ outcome = "ok" THEN verdict ELSE "none"

\* an orchestrator for which a failed validation fails the stage
stage_result_strict(outcome, verdict) == IF verdict \in {"invalid", "raises"} THEN "raise" ELSE outcome

\* how the iteration ends: in the except branch exactly when _run_stage
\* raised; the validation has its own try/except and never gets there
stage_result(outcome, verdict) == outcome

\* one iteration of "for stage in stages": _run_stage, validation, bookkeeping
RunStage ==
    \E outcome \in {"ok", "raise"}, verdict \in {"valid", "invalid", "raises"} :
        LET stage == stages[stageIdx]
            seen == validation_verdict(stage, outcome, verdict)
            res == stage_result(outcome, seen)
        IN
        /\ runPc = "running"
        /\ stageIdx <= Len(stages)
        /\ outcome = "raise" => verdict = "valid"
        /\ invoked' = Append(invoked, [stage |-> stage, input |-> current_input, verdict |-> seen])
        /\ current_input' = next_input(current_input, stage, res)
        /\ IF res = "ok"
           THEN /\ results' = [results EXCEPT
                        !.stages[stage] = "success",
                        !.warnings = IF ValidationWarns(stage, verdict) THEN Append(@, stage) ELSE @]
                /\ stageIdx' = stageIdx + 1
           ELSE /\ results' = [results EXCEPT
                        !.stages[stage] = "failed",
                        !.errors = Append(@, stage)]
                /\ stageIdx' = IF is_critical_stage(stage) THEN Len(stages) + 1 ELSE stageIdx + 1
        /\ UNCHANGED <<runPc, cfg, stages>>
        /\ UNCHANGED <<ioVars, pdfVars, batchVars, rb, ext, pipe, tbl>>

\* after the loop: the final status
RunSingleFinish ==
    /\ runPc = "running"
    /\ stageIdx > Len(stages)
    /\ results' = [results EXCEPT !.status = FinalStatus(Len(results.errors), Len(stages))]
    /\ runPc' = "done"
    /\ UNCHANGED <<cfg, stages, stageIdx, current_input, invoked>>
    /\ UNCHANGED <<ioVars, pdfVars, batchVars, rb, ext, pipe, tbl>>

NextRun == RunSingleStart \/ RunStage \/ RunSingleFinish

(***************************************************************************)
(* run_mvp.PipelineOrchestrator.run_batch: the files 1..total of the       *)
(* directory, each handed to run_single.                                   *)
(***************************************************************************)
NoBatch == [pc |-> "idle", continue_on_error |-> TRUE, start |-> STRUCTURAL, end |-> EMBED,
            total |-> 0, idx |-> 1, processed |-> <<>>, partial |-> <<>>, failed |-> <<>>,
            status |-> "none", called |-> <<>>]

InitRunBatch == rb = NoBatch

\* run_batch up to the loop (lines 342-369)
RunBatchStart ==
    \E n \in 0..MaxFiles, start \in StageNames, end \in StageNames,
       continue_on_error \in BOOLEAN, validate_stages \in BOOLEAN, dry_run \in BOOLEAN :
        /\ rb.pc = "idle"
        /\ runPc = "idle"
        /\ cfg' = [validate_stages |-> validate_stages, dry_run |-> dry_run]
        /\ rb' = [rb EXCEPT
                !.continue_on_error = continue_on_error, !.start = start, !.end = end,
                !.total = n,
                !.pc = IF n = 0 \/ dry_run THEN "done" ELSE "loop",
                !.status = IF n = 0 THEN "error" ELSE IF dry_run THEN "dry_run" ELSE "none"]
        /\ UNCHANGED <<runPc, stages, stageIdx, current_input, results, invoked>>
        /\ UNCHANGED <<ioVars, pdfVars, batchVars, ext, pipe, tbl>>

\* self.run_single(input_file, start_stage, end_stage), up to its loop
RunBatchCall ==
    /\ rb.pc = "loop"
    /\ runPc = "idle"
    /\ rb' = [rb EXCEPT !.pc = "in_file", !.called = Append(@, rb.idx)]
    /\ IF StageIndex(rb.start) > StageIndex(rb.end)
       THEN /\ runPc' = "done"
            /\ results' = [results EXCEPT !.status = "ValueError"]
            /\ UNCHANGED stages
       ELSE /\ runPc' = "running"
            /\ stages' = StageSequence(rb.start, rb.end)
            /\ UNCHANGED results
    /\ UNCHANGED <<cfg, stageIdx, current_input, invoked>>
    /\ UNCHANGED <<ioVars, pdfVars, batchVars, ext, pipe, tbl>>

\* the batch is left with "break": run_single raised and continue_on_error
\* is off (lines 394-398)
stops_batch(status, continue_on_error) == status = "ValueError" /\ ~continue_on_error

\* the rest of the loop body: the file goes to one of the three lists
RunBatchCollect ==
    LET status == results.status
        last == rb.idx = rb.total \/ stops_batch(status, rb.continue_on_error)
    IN
    /\ rb.pc = "in_file"
    /\ runPc = "done"
    /\ rb' = [rb EXCEPT
            !.processed = IF status = "completed" THEN Append(@, rb.idx) ELSE @,
            !.partial = IF status = "partial" THEN Append(@, rb.idx) ELSE @,
            !.failed = IF status \notin {"completed", "partial"} THEN Append(@, rb.idx) ELSE @,
            !.idx = IF last THEN @ ELSE @ + 1,
            !.pc = IF last THEN "summary" ELSE "loop"]
    /\ runPc' = "idle"
    /\ stages' = <<>>
    /\ stageIdx' = 1
    /\ current_input' = INPUT_PATH
    /\ results' = NoResults
    /\ invoked' = <<>>
    /\ UNCHANGED cfg
    /\ UNCHANGED <<ioVars, pdfVars, batchVars, ext, pipe, tbl>>

\* the summary and the return (lines 400-425)
RunBatchFinish ==
    /\ rb.pc = "summary"
    /\ rb' = [rb EXCEPT !.pc = "done", !.status = "completed"]
    /\ UNCHANGED runVars
    /\ UNCHANGED <<ioVars, pdfVars, batchVars, ext, pipe, tbl>>

\* run_single as run_batch runs it
RunBatchStage == rb.pc = "in_file" /\ RunStage

RunBatchSingleFinish == rb.pc = "in_file" /\ RunSingleFinish

NextRunBatch == RunBatchStart \/ RunBatchCall \/ RunBatchStage \/ RunBatchSingleFinish
                \/ RunBatchCollect \/ RunBatchFinish

(***************************************************************************)
(* am_structural_robust: RetryConfig and BlankPageDetector.                *)
(* A page text is [src, len]: the strategy that produced it and the length *)
(* of its stripped characters (every strategy returns text.strip()).       *)
(***************************************************************************)
MAX_RETRIES == 3
INITIAL_DELAY == 1
BACKOFF_FACTOR == 2
MAX_DELAY == 10

RECURSIVE Pow(_, _)
Pow(b, e) == IF e = 0 THEN 1 ELSE b * Pow(b, e - 1)

Min(a, b) == IF a < b THEN a ELSE b

\* RetryConfig.get_delay
get_delay(attempt) == Min(INITIAL_DELAY * Pow(BACKOFF_FACTOR, attempt), MAX_DELAY)

is_last_attempt_off_by_one(attempt) == ~(attempt < MAX_RETRIES)

\* the retry loops: "if attempt < RetryConfig.MAX_RETRIES - 1" fails, which is
\* also the last iteration of "for attempt in range(MAX_RETRIES)"
is_last_attempt(attempt) == ~(attempt < MAX_RETRIES - 1)

min_chars_ocr == 50
min_chars_valid == 10
FRONT_MATTER_PAGES == 5
FRONT_MATTER_CHARS == 20
MIN_ACCEPTED_CHARS == 10

is_truly_blank_inclusive(text, page) ==
    \/ text.len = 0
    \/ (scfg.skip_front_matter /\ page <= FRONT_MATTER_PAGES /\ text.len < FRONT_MATTER_CHARS)
    \/ text.len <= min_chars_valid

\* BlankPageDetector.is_truly_blank
is_truly_blank(text, page) ==
    \/ text.len = 0
    \/ (scfg.skip_front_matter /\ page <= FRONT_MATTER_PAGES /\ text.len < FRONT_MATTER_CHARS)
    \/ text.len < min_chars_valid

needs_ocr_inclusive(text, page) == ~is_truly_blank(text, page) /\ text.len <= min_chars_ocr

\* BlankPageDetector.needs_ocr
needs_ocr(text, page) == ~is_truly_blank(text, page) /\ text.len < min_chars_ocr

(***************************************************************************)
(* TextExtractorChain.extract, one strategy call per step.                 *)
(***************************************************************************)
PDFMINER == "pdfminer"
PDFPLUMBER == "pdfplumber"
PYPDF2 == "pypdf2"
OCR == "ocr"
NONE == "none"

\* the chains the constructor builds, by what is installed
Chains == { <<PDFMINER, PDFPLUMBER, PYPDF2, OCR>>, <<PDFPLUMBER, PYPDF2>> }

StrategyNames == {PDFMINER, PDFPLUMBER, PYPDF2, OCR}

EmptyText == [src |-> NONE, len |-> 0]

\* lengths of the text a strategy returns, around the thresholds 10 and 50
TextLens == {0, 9, 10, 49, 50}

\* what one call of a strategy does: it raises, or returns a text of raw
\* length len whose normalized form (normalize, remove_common_watermarks)
\* has length nlen
CallOutcomes ==
    {[kind |-> "raise", len |-> 0, nlen |-> 0]}
    \cup {[kind |-> "text", len |-> n, nlen |-> n] : n \in TextLens}
    \cup {[kind |-> "text", len |-> n, nlen |-> 9] : n \in {m \in TextLens : m > 9}}

\* the calls made of one strategy: by the retry loop, by the preview, those
\* that raised, and the delays slept after a failed attempt
NoCalls == [loop |-> 0, prev |-> 0, raised |-> 0, sleeps |-> <<>>]

NewExtract == [phase |-> "idle", pos |-> 1, attempt |-> 0, prevPos |-> 1,
               previewed |-> FALSE, preview |-> EmptyText,
               log |-> [n \in StrategyNames |-> NoCalls],
               text |-> EmptyText, method |-> NONE]

\* extract returns (text, method, confidence)
Return(st, text, method) == [st EXCEPT !.phase = "returned", !.text = text, !.method = method]

\* the non-OCR strategy at or after position i of the chain, 0 when none
NextNonOcr(i) ==
    LET S == {j \in i..Len(scfg.extractors) : scfg.extractors[j] # OCR}
    IN IF S = {} THEN 0 ELSE CHOOSE j \in S : \A k \in S : j <= k

\* lines 170-175: the preview decides whether the OCR strategy is tried
AfterPreview(st, page) ==
    IF needs_ocr(st.preview, page)
    THEN [st EXCEPT !.phase = "call", !.attempt = 0]
    ELSE IF st.preview.len > 0 THEN Return(st, st.preview, PDFPLUMBER)
    ELSE Return(st, EmptyText, NONE)

\* the top of "for extractor_name, extractor_func in self.extractors" at
\* position pos
EnterStrategy(st, pos, page) ==
    LET at == [st EXCEPT !.pos = pos, !.attempt = 0] IN
    IF pos > Len(scfg.extractors) THEN Return(at, EmptyText, NONE)
    ELSE IF scfg.extractors[pos] = OCR
    THEN IF NextNonOcr(1) = 0
         THEN AfterPreview([at EXCEPT !.previewed = TRUE, !.preview = EmptyText], page)
         ELSE [at EXCEPT !.phase = "preview", !.prevPos = NextNonOcr(1)]
    ELSE [at EXCEPT !.phase = "call"]

\* one iteration of the retry loop of the strategy at st.pos (lines 178-205)
AfterCall(st, o, page) ==
    LET name == scfg.extractors[st.pos]
        logged == [st EXCEPT !.log[name].loop = @ + 1]
    IN IF o.kind = "raise"
       THEN IF is_last_attempt(st.attempt)
            THEN EnterStrategy([logged EXCEPT !.log[name].raised = @ + 1], st.pos + 1, page)
            ELSE [logged EXCEPT !.log[name].raised = @ + 1,
                                !.log[name].sleeps = Append(@, get_delay(st.attempt)),
                                !.attempt = @ + 1]
       ELSE IF o.nlen >= MIN_ACCEPTED_CHARS
            THEN Return(logged, [src |-> name, len |-> o.nlen], name)
            ELSE EnterStrategy(logged, st.pos + 1, page)

\* one iteration of the loop of _try_non_ocr_preview (lines 213-223)
AfterPreviewCall(st, o, page) ==
    LET name == scfg.extractors[st.prevPos]
        logged == [st EXCEPT !.log[name].prev = @ + 1]
    IN IF o.kind = "raise"
       THEN IF NextNonOcr(st.prevPos + 1) = 0
            THEN AfterPreview([logged EXCEPT !.log[name].raised = @ + 1,
                                             !.previewed = TRUE, !.preview = EmptyText], page)
            ELSE [logged EXCEPT !.log[name].raised = @ + 1,
                                !.prevPos = NextNonOcr(st.prevPos + 1)]
       ELSE AfterPreview([logged EXCEPT !.previewed = TRUE,
                                        !.preview = IF o.len = 0 THEN EmptyText
                                                    ELSE [src |-> name, len |-> o.len]], page)

(***************************************************************************)
(* TableExtractorChain.extract: the one strategy, pdfplumber.              *)
(***************************************************************************)
NewTables == [phase |-> "idle", attempt |-> 0, calls |-> 0, raised |-> 0, sleeps |-> <<>>,
              found |-> FALSE]

\* one iteration of the retry loop (lines 336-353); o is "raise", "tables"
\* (a non-empty list) or "empty"
AfterTableCall(t, o) ==
    LET logged == [t EXCEPT !.calls = @ + 1] IN
    IF o = "raise"
    THEN IF is_last_attempt(t.attempt)
         THEN [logged EXCEPT !.raised = @ + 1, !.phase = "returned"]
         ELSE [logged EXCEPT !.raised = @ + 1, !.sleeps = Append(@, get_delay(t.attempt)),
                             !.attempt = @ + 1]
    ELSE [logged EXCEPT !.phase = "returned", !.found = (o = "tables")]

(***************************************************************************)
(* RobustStructuralProcessor.process_pdf                                   *)
(* A card keeps segment_id, page_num, segment ("" or "text"),              *)
(* extraction_method, ocr_used, has_table and error (FALSE: no such key).  *)
(***************************************************************************)
\* the card _process_page builds
page_card(page, text, method, tables) ==
    [segment_id |-> SegmentIdOf(page + 1), page_num |-> page + 1,
     segment |-> IF text.len = 0 THEN "" ELSE "text",
     extraction_method |-> method, ocr_used |-> (method = OCR), has_table |-> tables,
     error |-> FALSE]

create_error_card_off_by_one(page) ==
    [segment_id |-> SegmentIdOf(page), page_num |-> page,
     segment |-> "", extraction_method |-> NONE, ocr_used |-> FALSE, has_table |-> FALSE,
     error |-> TRUE]

\* _create_error_card
create_error_card(page) ==
    [segment_id |-> SegmentIdOf(page + 1), page_num |-> page + 1,
     segment |-> "", extraction_method |-> NONE, ocr_used |-> FALSE, has_table |-> FALSE,
     error |-> TRUE]

NoDataset == [written |-> FALSE, cards |-> <<>>, error |-> ""]

NoPdf == [normal |-> NoDataset, errfile |-> NoDataset, returned |-> "none",
          raised_pages |-> {}, doc_raised |-> FALSE]

\* an error dataset whose header has no error field
error_dataset_no_error(msg) == [written |-> TRUE, cards |-> <<>>, error |-> ""]

\* _create_error_dataset: a header with an error field and no cards
error_dataset(msg) == [written |-> TRUE, cards |-> <<>>, error |-> msg]

\* the settings a processor can be constructed with
Settings == [extractors : Chains, skip_front_matter : BOOLEAN]

InitPdf ==
    /\ pdfPc = "idle"
    /\ scfg \in Settings
    /\ total_pages = 0
    /\ page_num = 0
    /\ pdf_cards = <<>>
    /\ tx = NewExtract
    /\ tb = NewTables
    /\ pdf = NoPdf

\* the state in which the body of "for page_num in range(total_pages)" starts
\* page p: _process_page calls text_chain.extract
StartPage(p) ==
    /\ page_num' = p
    /\ tx' = EnterStrategy(NewExtract, 1, p)
    /\ tb' = NewTables

\* process_pdf up to the page loop (lines 506-529) on a PDF of n pages
ProcessPdfBegin ==
    \E n \in 0..MaxPages :
        /\ pdfPc = "idle"
        /\ total_pages' = n
        /\ IF n = 0
           THEN /\ pdf' = [pdf EXCEPT !.errfile = error_dataset("Cannot determine page count"),
                                      !.returned = "error"]
                /\ pdfPc' = "done"
                /\ UNCHANGED <<page_num, tx, tb>>
           ELSE /\ pdfPc' = "page"
                /\ StartPage(0)
                /\ UNCHANGED pdf
        /\ UNCHANGED <<scfg, pdf_cards>>
        /\ UNCHANGED <<ioVars, runVars, batchVars, rb, ext, pipe, tbl>>

\* text_chain.extract: a call of the strategy at tx.pos by the retry loop
TextCall ==
    \E o \in CallOutcomes :
        /\ pdfPc = "page"
        /\ tx.phase = "call"
        /\ tx' = AfterCall(tx, o, page_num)
        /\ UNCHANGED <<pdfPc, scfg, total_pages, page_num, pdf_cards, tb, pdf>>
        /\ UNCHANGED <<ioVars, runVars, batchVars, rb, ext, pipe, tbl>>

\* text_chain.extract: a call of a non-OCR strategy by _try_non_ocr_preview
PreviewCall ==
    \E o \in CallOutcomes :
        /\ pdfPc = "page"
        /\ tx.phase = "preview"
        /\ tx' = AfterPreviewCall(tx, o, page_num)
        /\ UNCHANGED <<pdfPc, scfg, total_pages, page_num, pdf_cards, tb, pdf>>
        /\ UNCHANGED <<ioVars, runVars, batchVars, rb, ext, pipe, tbl>>

\* table_chain.extract: a call of pdfplumber's table strategy; the record of
\* the text chain's calls ends when the table chain starts
TableCall ==
    \E o \in {"raise", "tables", "empty"} :
        /\ pdfPc = "page"
        /\ tx.phase = "returned"
        /\ tb.phase \in {"idle", "call"}
        /\ tb' = AfterTableCall([tb EXCEPT !.phase = "call"], o)
        /\ tx' = Return(NewExtract, tx.text, tx.method)
        /\ UNCHANGED <<pdfPc, scfg, total_pages, page_num, pdf_cards, pdf>>
        /\ UNCHANGED <<ioVars, runVars, batchVars, rb, ext, pipe, tbl>>

\* the end of the loop body: the next page, or the end of the loop
NextPage ==
    IF page_num + 1 < total_pages
    THEN /\ StartPage(page_num + 1)
         /\ UNCHANGED pdfPc
    ELSE /\ pdfPc' = "built"
         /\ tx' = NewExtract
         /\ tb' = NewTables
         /\ UNCHANGED page_num

\* _process_page returns its card, which is appended (lines 608-633, 532)
BuildCard ==
    /\ pdfPc = "page"
    /\ tb.phase = "returned"
    /\ pdf_cards' = Append(pdf_cards, page_card(page_num, tx.text, tx.method, tb.found))
    /\ NextPage
    /\ UNCHANGED <<scfg, total_pages, pdf>>
    /\ UNCHANGED <<ioVars, runVars, batchVars, rb, ext, pipe, tbl>>

\* _process_page raises: the except branch appends an error card (546-549)
PageRaise ==
    /\ pdfPc = "page"
    /\ pdf_cards' = Append(pdf_cards, create_error_card(page_num))
    /\ pdf' = [pdf EXCEPT !.raised_pages = @ \cup {page_num}]
    /\ NextPage
    /\ UNCHANGED <<scfg, total_pages>>
    /\ UNCHANGED <<ioVars, runVars, batchVars, rb, ext, pipe, tbl>>

\* after the loop (lines 556-576): header, audit, save, quality tracking;
\* an exception before or after _save_dataset ends in _create_error_dataset
ProcessPdfFinish ==
    \E o \in {"ok", "raise_before_save", "raise_after_save"} :
        /\ pdfPc = "built"
        /\ pdf' = [pdf EXCEPT
                !.normal = IF o = "raise_before_save" THEN @
                           ELSE [written |-> TRUE, cards |-> pdf_cards, error |-> ""],
                !.errfile = IF o = "ok" THEN @ ELSE error_dataset("exception"),
                !.returned = IF o = "ok" THEN "normal" ELSE "error",
                !.doc_raised = (o # "ok")]
        /\ pdfPc' = "done"
        /\ UNCHANGED <<scfg, total_pages, page_num, pdf_cards, tx, tb>>
        /\ UNCHANGED <<ioVars, runVars, batchVars, rb, ext, pipe, tbl>>

NextPdf == ProcessPdfBegin \/ TextCall \/ PreviewCall \/ TableCall \/ BuildCard \/ PageRaise
           \/ ProcessPdfFinish

(***************************************************************************)
(* run_single with the structural stage played by process_pdf.             *)
(* _run_stage returns whatever process_pdf returns, and process_pdf        *)
(* returns a path on every way out of its body.                            *)
(***************************************************************************)
\* the file _create_error_dataset writes, next to the normal dataset
ERROR_OUTPUT == StageOutput(STRUCTURAL) \o ".error"

\* what process_pdf leaves behind between its call and its return, on a PDF
\* of n pages of which the pages in raised raise inside _process_page; o is
\* the way the part after the loop ends, as in ProcessPdfFinish.  The text of
\* a page that did not raise is not read by run_single and is left empty.
process_pdf(n, raised, o) ==
    IF n = 0
    THEN [NoPdf EXCEPT !.errfile = error_dataset("Cannot determine page count"),
                       !.returned = "error"]
    ELSE [normal |-> IF o = "raise_before_save" THEN NoDataset
                     ELSE [written |-> TRUE,
                           cards |-> [i \in 1..n |-> IF (i - 1) \in raised
                                                     THEN create_error_card(i - 1)
                                                     ELSE page_card(i - 1, EmptyText, NONE, FALSE)],
                           error |-> ""],
          errfile |-> IF o = "ok" THEN NoDataset ELSE error_dataset("exception"),
          returned |-> IF o = "ok" THEN "normal" ELSE "error",
          raised_pages |-> raised,
          doc_raised |-> (o # "ok")]

\* the path process_pdf returns
returned_path(p) == IF p.returned = "error" THEN ERROR_OUTPUT ELSE StageOutput(STRUCTURAL)

\* the iteration of run_single's loop for the structural stage: _run_stage
\* returns process_pdf's path, so the iteration always takes the try branch
RunStructural ==
    \E n \in 0..MaxPages, raised \in SUBSET (0..(MaxPages - 1)),
       o \in {"ok", "raise_before_save", "raise_after_save"},
       verdict \in {"valid", "invalid", "raises"} :
        LET seen == validation_verdict(STRUCTURAL, "ok", verdict)
            res == stage_result("ok", seen)
            left == process_pdf(n, raised, o)
        IN
        /\ runPc = "running"
        /\ stageIdx <= Len(stages)
        /\ stages[stageIdx] = STRUCTURAL
        /\ pdfPc = "idle"
        /\ raised \subseteq 0..(n - 1)
        /\ n = 0 => o = "ok"
        /\ total_pages' = n
        /\ pdf' = left
        /\ pdf_cards' = left.normal.cards
        /\ pdfPc' = "done"
        /\ invoked' = Append(invoked, [stage |-> STRUCTURAL, input |-> current_input, verdict |-> seen])
        /\ current_input' = IF res = "ok" THEN returned_path(left) ELSE current_input
        /\ IF res = "ok"
           THEN /\ results' = [results EXCEPT
                        !.stages[STRUCTURAL] = "success",
                        !.warnings = IF ValidationWarns(STRUCTURAL, verdict)
                                     THEN Append(@, STRUCTURAL) ELSE @]
                /\ stageIdx' = stageIdx + 1
           ELSE /\ results' = [results EXCEPT
                        !.stages[STRUCTURAL] = "failed",
                        !.errors = Append(@, STRUCTURAL)]
                /\ stageIdx' = Len(stages) + 1
        /\ UNCHANGED <<runPc, cfg, stages>>
        /\ UNCHANGED <<scfg, page_num, tx, tb>>
        /\ UNCHANGED <<ioVars, batchVars, rb, ext, pipe, tbl>>

\* the iterations for the stages after structural
RunLaterStage ==
    /\ runPc = "running"
    /\ stageIdx <= Len(stages)
    /\ stages[stageIdx] # STRUCTURAL
    /\ RunStage

NextDoc == RunSingleStart \/ RunStructural \/ RunLaterStage \/ RunSingleFinish

(***************************************************************************)
(* batch_process_library: BatchProcessor and main.                         *)
(* The library holds the books 1..MaxBooks, in the order of sorted(glob).  *)
(* A run is one execution of main(); after it ends (or is killed) main     *)
(* may be started again, up to MaxRuns times.                              *)
(***************************************************************************)
Books == 1..MaxBooks

\* _load_checkpoint when the file does not exist
EmptyCheckpoint == [processed_books |-> <<>>, failed_books |-> <<>>, last_book |-> 0]

NoCheckpointFile == [kind |-> "absent", content |-> EmptyCheckpoint]

\* config["batch"]["continue_on_error"], ["max_retries"]
BatchSettings == [continue_on_error : BOOLEAN, max_retries : {1, 2}]

\* get_pdf_files: the books not listed in processed_books, sorted
get_pdf_files_all(checkpoint) == SelectSeq([b \in Books |-> b], LAMBDA b : TRUE)

get_pdf_files(checkpoint) ==
    SelectSeq([b \in Books |-> b], LAMBDA b : b \notin Range(checkpoint.processed_books))

NoBatchLog == [runs |-> 0, succeeded |-> {}, called |-> <<>>, tries |-> [b \in Books |-> 0],
               start |-> EmptyCheckpoint, exit |-> "none"]

InitBatch ==
    /\ bPc = "down"
    /\ bcfg = [continue_on_error |-> TRUE, max_retries |-> 1]
    /\ ckDisk = NoCheckpointFile
    /\ ck = EmptyCheckpoint
    /\ pdfs = <<>>
    /\ bIdx = 1
    /\ bAttempt = 1
    /\ bAfter = "next"
    /\ bLog = NoBatchLog

\* main: BatchProcessor(config) loads the checkpoint, process_batch gets the
\* files and enters the loop (lines 287-291, 37-57, 172-189)
BatchStart ==
    \E c \in BatchSettings :
        /\ bPc = "down"
        /\ bLog.runs < MaxRuns
        /\ bcfg' = c
        /\ IF ckDisk.kind = "partial"
           THEN \* json.load raises in the constructor, outside main's try
                /\ bLog' = [bLog EXCEPT !.runs = @ + 1, !.called = <<>>,
                                        !.tries = [b \in Books |-> 0], !.exit = "traceback"]
                /\ UNCHANGED <<bPc, ck, pdfs>>
           ELSE LET loaded == IF ckDisk.kind = "absent" THEN EmptyCheckpoint ELSE ckDisk.content IN
                /\ ck' = loaded
                /\ pdfs' = get_pdf_files(loaded)
                /\ bLog' = [bLog EXCEPT !.runs = @ + 1, !.called = <<>>,
                                        !.tries = [b \in Books |-> 0], !.start = loaded,
                                        !.succeeded = Range(loaded.processed_books),
                                        !.exit = IF get_pdf_files(loaded) = <<>> THEN "0"
                                                 ELSE "none"]
                /\ bPc' = IF get_pdf_files(loaded) = <<>> THEN "down" ELSE "attempt"
        /\ bIdx' = 1
        /\ bAttempt' = 1
        /\ bAfter' = "next"
        /\ UNCHANGED ckDisk
        /\ UNCHANGED <<ioVars, runVars, pdfVars, rb, ext, pipe, tbl>>

\* the retry loop's test "if attempt == self.max_retries" (line 207)
is_final_attempt_never(attempt, max_retries) == FALSE

is_final_attempt(attempt, max_retries) == attempt = max_retries

\* one iteration of "for attempt in range(1, self.max_retries + 1)":
\* process_single_book(pdf_path) and what follows it (lines 194-217).
\* run_mvp.main returns, raises an Exception, ends in sys.exit (its way to
\* report a failed or interrupted pipeline), or a KeyboardInterrupt arrives
\* outside run_mvp.main's own handler.
ProcessSingleBook ==
    \E o \in {"ok", "exception", "system_exit", "keyboard_interrupt"} :
        LET book == pdfs[bIdx]
            logged == [bLog EXCEPT !.called = Append(@, book), !.tries[book] = @ + 1]
        IN
        /\ bPc = "attempt"
        /\ CASE o = "ok" ->
                  /\ ck' = [ck EXCEPT !.processed_books = Append(@, book), !.last_book = book]
                  /\ bLog' = [logged EXCEPT !.succeeded = @ \cup {book}]
                  /\ bPc' = "save_open"
                  /\ bAfter' = "next"
                  /\ UNCHANGED bAttempt
             [] o = "exception" /\ ~bcfg.continue_on_error ->
                  \* re-raised; main's "except Exception" saves and returns 1
                  /\ bLog' = logged
                  /\ bPc' = "save_open"
                  /\ bAfter' = "exit 1"
                  /\ UNCHANGED <<ck, bAttempt>>
             [] o = "exception" /\ bcfg.continue_on_error ->
                  /\ bLog' = logged
                  /\ IF is_final_attempt(bAttempt, bcfg.max_retries)
                     THEN /\ ck' = [ck EXCEPT !.failed_books = Append(@, book)]
                          /\ bPc' = "save_open"
                          /\ bAfter' = "next"
                          /\ UNCHANGED bAttempt
                     ELSE /\ IF bAttempt < bcfg.max_retries
                             THEN /\ bAttempt' = bAttempt + 1
                                  /\ UNCHANGED <<bPc, bAfter>>
                             ELSE /\ bPc' = "save_open"
                                  /\ bAfter' = "next"
                                  /\ UNCHANGED bAttempt
                          /\ UNCHANGED ck
             [] o = "system_exit" ->
                  \* SystemExit is no Exception: no handler, the process ends
                  /\ bLog' = [logged EXCEPT !.exit = "system_exit"]
                  /\ bPc' = "down"
                  /\ UNCHANGED <<ck, bAttempt, bAfter>>
             [] o = "keyboard_interrupt" ->
                  \* main's "except KeyboardInterrupt" saves and returns 130
                  /\ bLog' = logged
                  /\ bPc' = "save_open"
                  /\ bAfter' = "exit 130"
                  /\ UNCHANGED <<ck, bAttempt>>
        /\ UNCHANGED <<bcfg, ckDisk, pdfs, bIdx>>
        /\ UNCHANGED <<ioVars, runVars, pdfVars, rb, ext, pipe, tbl>>

\* _save_checkpoint: open(self.checkpoint_file, 'w') truncates the file
SaveCheckpointOpen ==
    /\ bPc = "save_open"
    /\ ckDisk' = [kind |-> "partial", content |-> EmptyCheckpoint]
    /\ bPc' = "save_write"
    /\ UNCHANGED <<bcfg, ck, pdfs, bIdx, bAttempt, bAfter, bLog>>
    /\ UNCHANGED <<ioVars, runVars, pdfVars, rb, ext, pipe, tbl>>

\* _save_checkpoint: json.dump and close; then the next file, the end of the
\* loop, or the return of main
SaveCheckpointWrite ==
    /\ bPc = "save_write"
    /\ ckDisk' = [kind |-> "json", content |-> ck]
    /\ IF bAfter = "next"
       THEN IF bIdx < Len(pdfs)
            THEN /\ bIdx' = bIdx + 1
                 /\ bAttempt' = 1
                 /\ bPc' = "attempt"
                 /\ UNCHANGED bLog
            ELSE /\ bPc' = "final"
                 /\ UNCHANGED <<bIdx, bAttempt, bLog>>
       ELSE /\ bPc' = "down"
            /\ bLog' = [bLog EXCEPT !.exit = bAfter]
            /\ UNCHANGED <<bIdx, bAttempt>>
    /\ UNCHANGED <<bcfg, ck, pdfs, bAfter>>
    /\ UNCHANGED <<ioVars, runVars, pdfVars, rb, ext, pipe, tbl>>

\* after the loop: _print_summary and _save_final_report (lines 228-229);
\* an exception there reaches main's handler, which saves and returns 1
BatchFinish ==
    \E o \in {"ok", "exception"} :
        /\ bPc = "final"
        /\ IF o = "ok"
           THEN /\ bPc' = "down"
                /\ bLog' = [bLog EXCEPT !.exit = "0"]
                /\ UNCHANGED bAfter
           ELSE /\ bPc' = "save_open"
                /\ bAfter' = "exit 1"
                /\ UNCHANGED bLog
        /\ UNCHANGED <<bcfg, ckDisk, ck, pdfs, bIdx, bAttempt>>
        /\ UNCHANGED <<ioVars, runVars, pdfVars, rb, ext, pipe, tbl>>

\* a KeyboardInterrupt in the driver's own code: main's handler saves the
\* checkpoint and returns 130; inside the handlers of main it ends the process
Interrupt ==
    /\ bPc \in {"save_open", "save_write", "final"}
    /\ IF bAfter = "next" \/ bPc = "final"
       THEN /\ bPc' = "save_open"
            /\ bAfter' = "exit 130"
            /\ UNCHANGED bLog
       ELSE /\ bPc' = "down"
            /\ bLog' = [bLog EXCEPT !.exit = "interrupted"]
            /\ UNCHANGED bAfter
    /\ UNCHANGED <<bcfg, ckDisk, ck, pdfs, bIdx, bAttempt>>
    /\ UNCHANGED <<ioVars, runVars, pdfVars, rb, ext, pipe, tbl>>

\* the process is killed (or the machine stops) at any point of a run
Crash ==
    /\ bPc # "down"
    /\ bPc' = "down"
    /\ bLog' = [bLog EXCEPT !.exit = "killed"]
    /\ UNCHANGED <<bcfg, ckDisk, ck, pdfs, bIdx, bAttempt, bAfter>>
    /\ UNCHANGED <<ioVars, runVars, pdfVars, rb, ext, pipe, tbl>>

NextBatch == BatchStart \/ ProcessSingleBook \/ SaveCheckpointOpen \/ SaveCheckpointWrite
             \/ BatchFinish \/ Interrupt \/ Crash

(***************************************************************************)
(* am_extended: TextAnalyzer, DuplicateDetector, ContinuityAuditor and the *)
(* part of ExtendedProcessor.process_dataset that calls them.              *)
(* A page text is a sequence of characters; " " and "LF" are whitespace,   *)
(* "." is punctuation, the rest are letters.                               *)
(***************************************************************************)
Rep(ch, n) == [i \in 1..n |-> ch]

Chars == {"a", "A", "b", "B", "n", "o", ".", " ", "LF"}

IsWhitespace(ch) == ch \in {" ", "LF"}

\* [A-Za-z0-9] among the characters
WordChars == {"a", "A", "b", "B", "n", "o"}

\* str.lower
lower(t) == [i \in DOMAIN t |-> IF t[i] = "A" THEN "a" ELSE IF t[i] = "B" THEN "b" ELSE t[i]]

\* str.strip
RECURSIVE text_strip(_)
text_strip(t) ==
    IF t = <<>> THEN t
    ELSE IF IsWhitespace(Head(t)) THEN text_strip(Tail(t))
    ELSE IF IsWhitespace(t[Len(t)]) THEN text_strip(SubSeq(t, 1, Len(t) - 1))
    ELSE t

\* the maximal runs of t whose characters are in keep, in order
RECURSIVE Runs(_, _, _)
Runs(t, run, keep) ==
    IF t = <<>> THEN (IF run = <<>> THEN <<>> ELSE <<run>>)
    ELSE IF Head(t) \in keep THEN Runs(Tail(t), Append(run, Head(t)), keep)
    ELSE (IF run = <<>> THEN <<>> ELSE <<run>>) \o Runs(Tail(t), <<>>, keep)

\* str.split()
split(t) == Runs(t, <<>>, {ch \in Chars : ~IsWhitespace(ch)})

\* ' '.join(words)
RECURSIVE join(_)
join(words) ==
    IF words = <<>> THEN <<>>
    ELSE IF Len(words) = 1 THEN words[1]
    ELSE words[1] \o <<" ">> \o join(Tail(words))

\* WORD_RE.findall: runs of two or more letters or digits
findall(t) == SelectSeq(Runs(t, <<>>, WordChars), LAMBDA w : Len(w) >= 2)

\* the stop words that can be written with the letters above
STOP_WORDS == {<<"a">>, <<"a", "n">>, <<"n", "o">>, <<"o", "n">>}

\* TextAnalyzer.tokenize
tokenize(t) == SelectSeq(findall(lower(t)), LAMBDA w : w \notin STOP_WORDS)

\* TextAnalyzer.jaccard_similarity, as the fraction num / den
jaccard_similarity(tokens_a, tokens_b) ==
    IF tokens_a = <<>> /\ tokens_b = <<>> THEN [num |-> 1, den |-> 1]
    ELSE IF tokens_a = <<>> \/ tokens_b = <<>> THEN [num |-> 0, den |-> 1]
    ELSE [num |-> Cardinality(Range(tokens_a) \cap Range(tokens_b)),
          den |-> Cardinality(Range(tokens_a) \cup Range(tokens_b))]

\* TextAnalyzer.text_hash: the digest of the normalized text, taken to be
\* the normalized text itself (equal digests for equal normalized texts)
text_hash(t) == join(split(lower(t)))

\* "if len(text.strip()) < 50": the page is too short to be compared
MIN_PAGE_CHARS == 50

is_short_page_never(t) == FALSE

is_short_page(t) == Len(text_strip(t)) < MIN_PAGE_CHARS

\* round(similarity, 3), in thousandths
round3(sim) == (2000 * sim.num + sim.den) \div (2 * sim.den)

\* similarity < self.overlap_threshold, the threshold in thousandths
below_threshold_or_equal(sim, threshold) == 1000 * sim.num <= threshold * sim.den

below_threshold(sim, threshold) == 1000 * sim.num < threshold * sim.den

\* the page texts of the datasets the stage is run on
PageTexts ==
    { Rep("a", 50),
      <<" ">> \o Rep("A", 50) \o <<"LF">>,
      Rep("a", 49) \o <<" ">>,
      Rep("a", 25) \o <<" ", " ">> \o Rep("b", 25),
      Rep("A", 25) \o <<"LF">> \o Rep("b", 25),
      Rep("b", 25),
      <<"n", "o", ".">>,
      Rep(".", 50),
      <<>> }

\* overlap_threshold, in thousandths (the default is 0.1)
Thresholds == {0, 100}

\* the cards DatasetIO.load returns for a document of n pages: in page order
\* or in reverse page order
LoadedCards ==
    UNION {{ [i \in 1..n |->
                LET p == IF up THEN i ELSE n + 1 - i IN
                [segment_id |-> SegmentIdOf(p), page_num |-> p, segment |-> txt[i],
                 is_duplicate |-> FALSE, duplicate_of |-> 0, continuity_gap |-> FALSE]]
             : txt \in [1..n -> PageTexts], up \in BOOLEAN } : n \in 1..MaxDocPages}

NoExt == [pc |-> "idle", dedup |-> TRUE, overlap_threshold |-> 100, loaded |-> <<>>,
          cards |-> <<>>, duplicates |-> <<>>, marked_count |-> 0,
          gaps |-> <<>>, overlaps |-> <<>>]

InitExt == ext = NoExt

\* process_dataset up to the duplicate detection: load, settings
ProcessDatasetLoad ==
    \E cs \in LoadedCards, dedup \in BOOLEAN, threshold \in Thresholds :
        /\ ext.pc = "idle"
        /\ ext' = [ext EXCEPT !.pc = IF dedup THEN "detect" ELSE "audit",
                              !.dedup = dedup, !.overlap_threshold = threshold,
                              !.loaded = cs, !.cards = cs]
        /\ UNCHANGED <<ioVars, runVars, pdfVars, batchVars, rb, pipe, tbl>>

\* the first pass of detect_duplicates: seen_hashes as the sequence of
\* [hash, pages] in the order the hashes were first seen
RECURSIVE seen_hashes(_, _)
seen_hashes(cs, seen) ==
    IF cs = <<>> THEN seen
    ELSE LET card == Head(cs)
             h == text_hash(card.segment)
         IN
         IF is_short_page(card.segment) THEN seen_hashes(Tail(cs), seen)
         ELSE IF \E k \in 1..Len(seen) : seen[k].hash = h
         THEN seen_hashes(Tail(cs),
                [k \in 1..Len(seen) |->
                    IF seen[k].hash = h
                    THEN [seen[k] EXCEPT !.pages = Append(@, card.page_num)]
                    ELSE seen[k]])
         ELSE seen_hashes(Tail(cs), Append(seen, [hash |-> h, pages |-> <<card.page_num>>]))

\* sorted(pages)
sorted(pages) == SortSeq(pages, LAMBDA p, q : p < q)

\* DuplicateDetector.detect_duplicates
detect_duplicates(cs) ==
    LET seen == seen_hashes(cs, <<>>)
        many == SelectSeq(seen, LAMBDA e : Len(e.pages) > 1)
    IN [k \in 1..Len(many) |-> [pages |-> sorted(many[k].pages), similarity |-> 1000]]

DetectDuplicates ==
    /\ ext.pc = "detect"
    /\ ext' = [ext EXCEPT !.pc = "mark", !.duplicates = detect_duplicates(ext.cards)]
    /\ UNCHANGED <<ioVars, runVars, pdfVars, batchVars, rb, pipe, tbl>>

\* the pages mark_duplicates flags: pages[1:] of every group
duplicate_pages_all(duplicates) ==
    UNION {Range(duplicates[k].pages) : k \in 1..Len(duplicates)}

duplicate_pages(duplicates) ==
    UNION {Range(Tail(duplicates[k].pages)) : k \in 1..Len(duplicates)}

\* DuplicateDetector.mark_duplicates: the cards afterwards
mark_duplicates(cs, duplicates) ==
    [i \in 1..Len(cs) |->
        IF cs[i].page_num \in duplicate_pages(duplicates)
        THEN LET k == CHOOSE k \in 1..Len(duplicates) :
                        /\ cs[i].page_num \in Range(duplicates[k].pages)
                        /\ \A j \in 1..(k - 1) : cs[i].page_num \notin Range(duplicates[j].pages)
             IN [cs[i] EXCEPT !.is_duplicate = TRUE, !.duplicate_of = duplicates[k].pages[1]]
        ELSE cs[i]]

MarkDuplicates ==
    LET marked == mark_duplicates(ext.cards, ext.duplicates) IN
    /\ ext.pc = "mark"
    /\ ext' = [ext EXCEPT !.pc = "audit", !.cards = marked,
                          !.marked_count = Cardinality({i \in 1..Len(marked) : marked[i].is_duplicate})]
    /\ UNCHANGED <<ioVars, runVars, pdfVars, batchVars, rb, pipe, tbl>>

\* the pairs (i - 1, i) of audit_continuity for which an overlap is computed
compared(cs, i) ==
    /\ ~cs[i].is_duplicate
    /\ tokenize(cs[i - 1].segment) # <<>>
    /\ tokenize(cs[i].segment) # <<>>

pair_similarity(cs, i) == jaccard_similarity(tokenize(cs[i - 1].segment), tokenize(cs[i].segment))

\* ContinuityAuditor.audit_continuity: overlaps and gaps in loop order, the
\* cards with their flags
AuditContinuity ==
    LET cs == ext.cards
        idx == SelectSeq([i \in 1..(Len(cs) - 1) |-> i + 1], LAMBDA i : compared(cs, i))
        gapIdx == SelectSeq(idx, LAMBDA i : below_threshold(pair_similarity(cs, i), ext.overlap_threshold))
    IN
    /\ ext.pc = "audit"
    /\ ext' = [ext EXCEPT
            !.pc = "done",
            !.overlaps = [k \in 1..Len(idx) |->
                            [at |-> idx[k], overlap |-> round3(pair_similarity(cs, idx[k]))]],
            !.gaps = [k \in 1..Len(gapIdx) |->
                            [from_page |-> cs[gapIdx[k] - 1].page_num,
                             to_page |-> cs[gapIdx[k]].page_num,
                             overlap |-> round3(pair_similarity(cs, gapIdx[k]))]],
            !.cards = [i \in 1..Len(cs) |->
                            IF i \in Range(gapIdx) THEN [cs[i] EXCEPT !.continuity_gap = TRUE]
                            ELSE cs[i]]]
    /\ UNCHANGED <<ioVars, runVars, pdfVars, batchVars, rb, pipe, tbl>>

NextExt == ProcessDatasetLoad \/ DetectDuplicates \/ MarkDuplicates \/ AuditContinuity

\* the cards of a document of three pages, in page order
ThreePageCards ==
    { [i \in 1..3 |->
        [segment_id |-> SegmentIdOf(i), page_num |-> i, segment |-> txt[i],
         is_duplicate |-> FALSE, duplicate_of |-> 0, continuity_gap |-> FALSE]]
      : txt \in [1..3 -> PageTexts] }

\* process_dataset on a three-page document, deduplication and continuity
\* audit enabled (the defaults)
ProcessThreePageLoad ==
    \E cs \in ThreePageCards, threshold \in Thresholds :
        /\ ext.pc = "idle"
        /\ ext' = [ext EXCEPT !.pc = "detect", !.dedup = TRUE, !.overlap_threshold = threshold,
                              !.loaded = cs, !.cards = cs]
        /\ UNCHANGED <<ioVars, runVars, pdfVars, batchVars, rb, pipe, tbl>>

NextThreePage == ProcessThreePageLoad \/ DetectDuplicates \/ MarkDuplicates \/ AuditContinuity

(***************************************************************************)
(* The fields of one card through the stages after structural:             *)
(* structure_detect, summarize, extended, finalize. A field is absent, or  *)
(* holds None, the empty string, or another value.                         *)
(***************************************************************************)
REQUIRED_FIELDS == {"segment_id", "segment", "page_num", "source_file"}

CardFields ==
    REQUIRED_FIELDS \cup {"chapter_num", "chapter_title", "section_num", "section_title",
                          "l1_summary", "l2_summary", "is_duplicate", "duplicate_of"}

ABSENT == "absent"

\* the card _process_page / _create_error_card builds; segment may be ""
structural_card(seg) ==
    [f \in CardFields |->
        IF f = "segment" THEN seg ELSE IF f \in REQUIRED_FIELDS THEN "value" ELSE ABSENT]

\* StructureDetector: chapter and section fields, None when none is current
apply_structure(card, chapter, section) ==
    [card EXCEPT !["chapter_num"] = IF chapter THEN "value" ELSE "None",
                 !["chapter_title"] = IF chapter THEN "value" ELSE "None",
                 !["section_num"] = IF section THEN "value" ELSE "None",
                 !["section_title"] = IF section THEN "value" ELSE "None"]

\* SummarizeProcessor.process_dataset loop body: l1 and l2 are what
\* engine.summarize returned ("" or a text)
apply_summaries(card, too_short, l1, generate_l2, l2) ==
    IF too_short THEN card
    ELSE [card EXCEPT !["l1_summary"] = l1,
                      !["l2_summary"] = IF generate_l2 THEN l2 ELSE @]

\* mark_duplicates on the card
apply_duplicate(card, dup) ==
    IF dup THEN [card EXCEPT !["is_duplicate"] = "value", !["duplicate_of"] = "value"] ELSE card

keep_fields == REQUIRED_FIELDS \cup {"l1_summary", "l2_summary"}

\* a cleaner that removes nothing
clean_card_keep_all(card, remove_empty_fields) == card

\* DataCleaner.clean_card: the fields that are left
clean_card(card, remove_empty_fields) ==
    IF remove_empty_fields
    THEN [f \in CardFields |->
            IF card[f] # "None" /\ (card[f] # "" \/ f \in keep_fields) THEN card[f] ELSE ABSENT]
    ELSE card

NoPipe == [stage |-> "none", input |-> structural_card(""), card |-> structural_card("")]

InitPipe == pipe = NoPipe

StructuralCard ==
    \E seg \in {"", "value"} :
        /\ pipe.stage = "none"
        /\ pipe' = [stage |-> STRUCTURAL, input |-> structural_card(seg), card |-> structural_card(seg)]
        /\ UNCHANGED <<ioVars, runVars, pdfVars, batchVars, rb, ext, tbl>>

StructureDetectCard ==
    \E chapter \in BOOLEAN, section \in BOOLEAN :
        /\ pipe.stage = STRUCTURAL
        /\ pipe' = [stage |-> STRUCTURE_DETECT, input |-> pipe.card,
                    card |-> apply_structure(pipe.card, chapter, section)]
        /\ UNCHANGED <<ioVars, runVars, pdfVars, batchVars, rb, ext, tbl>>

SummarizeCard ==
    \E too_short \in BOOLEAN, l1 \in {"", "value"}, generate_l2 \in BOOLEAN, l2 \in {"", "value"} :
        /\ pipe.stage = STRUCTURE_DETECT
        /\ pipe.card["segment"] = "" => too_short
        /\ pipe' = [stage |-> SUMMARIZE, input |-> pipe.card,
                    card |-> apply_summaries(pipe.card, too_short, l1, generate_l2, l2)]
        /\ UNCHANGED <<ioVars, runVars, pdfVars, batchVars, rb, ext, tbl>>

ExtendedCard ==
    \E dup \in BOOLEAN :
        /\ pipe.stage = SUMMARIZE
        /\ pipe' = [stage |-> EXTENDED, input |-> pipe.card, card |-> apply_duplicate(pipe.card, dup)]
        /\ UNCHANGED <<ioVars, runVars, pdfVars, batchVars, rb, ext, tbl>>

FinalizeCard ==
    \E remove_empty_fields \in BOOLEAN :
        /\ pipe.stage = EXTENDED
        /\ pipe' = [stage |-> FINALIZE, input |-> pipe.card,
                    card |-> clean_card(pipe.card, remove_empty_fields)]
        /\ UNCHANGED <<ioVars, runVars, pdfVars, batchVars, rb, ext, tbl>>

NextPipe == StructuralCard \/ StructureDetectCard \/ SummarizeCard \/ ExtendedCard \/ FinalizeCard

(***************************************************************************)
(* TableExtractorChain._extract_pdfplumber, _format_table, _to_markdown.   *)
(* A raw table is what page.extract_tables() returns: rows of cells, a     *)
(* cell None or a string.                                                  *)
(***************************************************************************)
RawCells == {"None", "x"}

RawRows == SeqUpTo(RawCells, MaxTableCols)

RawTables == SeqUpTo(RawRows, MaxTableRows)

\* str(cell).strip() if cell else ''
clean_cell(cell) == IF cell = "None" THEN "" ELSE cell

\* "if not table or len(table) < self.min_rows: continue" and the same for
\* the first row and min_cols
accepted(table, min_rows, min_cols) ==
    /\ Len(table) >= min_rows
    /\ table[1] # <<>>
    /\ Len(table[1]) >= min_cols

\* row + [''] * (len(header) - len(row)), cut to len(header)
padded_row(row, n) == [j \in 1..n |-> IF j <= Len(row) THEN row[j] ELSE ""]

\* _to_markdown: the cells of the lines, header first (the separator line
\* has one "---" per header cell)
to_markdown(table) == [i \in 1..Len(table) |-> padded_row(table[i], Len(table[1]))]

\* _format_table
format_table(table, table_idx) ==
    LET cleaned == [i \in 1..Len(table) |-> [j \in 1..Len(table[i]) |-> clean_cell(table[i][j])]] IN
    [table_id |-> table_idx + 1,
     rows |-> Len(cleaned),
     cols |-> Len(cleaned[1]),
     data |-> cleaned,
     markdown |-> to_markdown(cleaned)]

\* the list _extract_pdfplumber returns
RECURSIVE format_accepted(_, _, _, _)
format_accepted(tables, idx, min_rows, min_cols) ==
    IF idx > Len(tables) THEN <<>>
    ELSE (IF accepted(tables[idx], min_rows, min_cols)
          THEN <<format_table(tables[idx], idx - 1)>> ELSE <<>>)
         \o format_accepted(tables, idx + 1, min_rows, min_cols)

NoTbl == [pc |-> "idle", min_rows |-> 2, min_cols |-> 2, raw |-> <<>>, result |-> <<>>]

InitTbl == tbl = NoTbl

\* page.extract_tables() on a chain with the settings min_rows, min_cols
ExtractTables ==
    \E raw \in SeqUpTo(RawTables, 1), min_rows \in {2, 3}, min_cols \in {2, 3} :
        /\ tbl.pc = "idle"
        /\ tbl' = [tbl EXCEPT !.pc = "raw", !.raw = raw, !.min_rows = min_rows, !.min_cols = min_cols]
        /\ UNCHANGED <<ioVars, runVars, pdfVars, batchVars, rb, ext, pipe>>

\* the loop over the tables: filter and format
FormatTables ==
    /\ tbl.pc = "raw"
    /\ tbl' = [tbl EXCEPT !.pc = "done",
                          !.result = format_accepted(tbl.raw, 1, tbl.min_rows, tbl.min_cols)]
    /\ UNCHANGED <<ioVars, runVars, pdfVars, batchVars, rb, ext, pipe>>

NextTbl == ExtractTables \/ FormatTables

(***************************************************************************)
(* Specifications: one per component, the other components idle.           *)
(***************************************************************************)
Init == InitIO /\ InitRun /\ InitPdf /\ InitBatch /\ InitRunBatch /\ InitExt /\ InitPipe /\ InitTbl

\* the components other than process_pdf do not read the extraction
\* settings: one processor, with the default settings
InitDefault == Init /\ scfg = [extractors |-> <<PDFMINER, PDFPLUMBER, PYPDF2, OCR>>, skip_front_matter |-> TRUE]

SpecIO == Init /\ [][NextIO]_vars

SpecRun == Init /\ [][NextRun]_vars

SpecPdf == Init /\ [][NextPdf]_vars

SpecRunBatch == InitDefault /\ [][NextRunBatch]_vars

SpecBatch == Init /\ [][NextBatch]_vars

SpecDoc == InitDefault /\ [][NextDoc]_vars

SpecExt == InitDefault /\ [][NextExt]_vars

SpecThreePage == InitDefault /\ [][NextThreePage]_vars

SpecPipe == Init /\ [][NextPipe]_vars

SpecTbl == InitDefault /\ [][NextTbl]_vars

(***************************************************************************)
(* Properties of the dataset store.                                        *)
(***************************************************************************)
\* C1: save followed by load of the same path returns exactly the saved
\* cards, field for field, ordered by segment_id (save called with its
\* default validation, so the cards are ones it accepts).
C1_RoundTrip ==
    (ioPc = "loaded" /\ ld.from = "saved" /\ sv.validate)
        => (ld.status = "ok" /\ ld.cards = SortBySid(sv.cards))

\* the manifest hash load would recompute over the body of a saved file:
\* every line between the begin marker and the footer line
BodyManifest(chars) == SubSeq(chars, 3, Len(chars) - Len(FooterLine) - 3)

\* C2: when a body line of a saved file was altered after save, so that the
\* hash of the body differs from the footer's manifest_sha256, load does not
\* return the file as a valid dataset.
C2_TamperDetected ==
    (ioPc = "loaded" /\ ld.from = "tampered" /\ BodyManifest(disk.chars) # disk.mf)
        => ld.status # "ok"

\* the card records among the body lines of a file: the lines that parse as
\* an object whose segment_id is not reserved
CardRecords(chars) ==
    LET ls == BodyLines(chars)
        parsed == [i \in 1..Len(ls) |-> JsonLoads(ls[i])]
        kept == SelectSeq(parsed, LAMBDA r : r.kind = "object" /\ r.obj.segment_id \notin ReservedIds)
    IN [i \in 1..Len(kept) |-> kept[i].obj]

\* C5: load fails with FileNotFoundError on a missing path and with
\* ValueError when a marker is absent; otherwise it succeeds whatever lines
\* cannot be parsed as a record, and returns every other record.
C5_LoadErrors ==
    ioPc = "loaded" =>
        /\ ~disk.exists => ld.status = "FileNotFoundError"
        /\ (disk.exists /\ MarkersMissing(disk.chars)) => ld.status = "ValueError"
        /\ (disk.exists /\ ~MarkersMissing(disk.chars))
              => (ld.status = "ok" /\ ld.cards = SortBySid(CardRecords(disk.chars)))

(***************************************************************************)
(* Properties of run_single.                                               *)
(***************************************************************************)
WasInvoked(stage) == \E k \in 1..Len(invoked) : invoked[k].stage = stage

PositionOf(stage) == CHOOSE i \in 1..Len(stages) : stages[i] = stage

\* C3: once structural or finalize has failed, no later stage of the planned
\* sequence is invoked and the result holds no entry for a later stage.
C3_CriticalFailureStops ==
    \A i \in 1..Len(stages) : \A j \in (i + 1)..Len(stages) :
        (results.stages[stages[i]] = "failed" /\ stages[i] \in {STRUCTURAL, FINALIZE})
            => (~WasInvoked(stages[j]) /\ results.stages[stages[j]] = "none")

C3_Witness ==
    /\ runPc = "done"
    /\ results.stages[FINALIZE] = "failed"
    /\ results.stages[EXTENDED] = "success"
    /\ EMBED \in Range(stages)
    /\ Len(invoked) = PositionOf(FINALIZE)

\* the output of the most recent stage before position p that succeeded, or
\* the original input
LastSuccessBefore(p) ==
    LET S == {q \in 1..(p - 1) : results.stages[stages[q]] = "success"}
    IN IF S = {} THEN INPUT_PATH
       ELSE StageOutput(stages[CHOOSE q \in S : \A r \in S : r <= q])

NonCriticalStages == {STRUCTURE_DETECT, SUMMARIZE, EXTENDED, CHUNK, EMBED}

\* C4: a failure of a non-critical stage is recorded and the next stage is
\* still invoked; every stage is given the output of the most recent stage
\* that succeeded, or the original input when none has.
C4_RecoverableContinues ==
    /\ \A k \in 1..Len(invoked) :
           invoked[k].input = LastSuccessBefore(PositionOf(invoked[k].stage))
    /\ \A p \in 1..Len(stages) :
           (results.stages[stages[p]] = "failed" /\ stages[p] \in NonCriticalStages)
               => /\ stages[p] \in Range(results.errors)
                  /\ stageIdx >= p + 1
                  /\ (runPc = "done" /\ p < Len(stages)) => WasInvoked(stages[p + 1])

C4_Witness ==
    /\ runPc = "done"
    /\ results.stages[STRUCTURAL] = "success"
    /\ results.stages[STRUCTURE_DETECT] = "failed"
    /\ results.stages[SUMMARIZE] = "failed"
    /\ \E k \in 1..Len(invoked) :
           invoked[k].stage = EXTENDED /\ invoked[k].input = StageOutput(STRUCTURAL)

(***************************************************************************)
(* Structural stage: page isolation, cards, OCR escalation, retries.       *)
(***************************************************************************)
\* C6: when the page count N of the PDF is determinable and nothing outside
\* the page loop raises, process_pdf writes a dataset of exactly N cards, the
\* i-th with segment_id the zero-padded page number i; a page whose
\* processing raised is an error card, every other page is a card that
\* _process_page built.
C6_PageErrorIsolation ==
    (pdfPc = "done" /\ total_pages > 0 /\ ~pdf.doc_raised) =>
        /\ pdf.returned = "normal"
        /\ pdf.normal.written
        /\ Len(pdf.normal.cards) = total_pages
        /\ \A i \in 1..total_pages :
            LET c == pdf.normal.cards[i] IN
            /\ c.segment_id = "0000" \o ToString(i)
            /\ c.page_num = i
            /\ c.error = ((i - 1) \in pdf.raised_pages)
            /\ c.error => (c.segment = "" /\ c.extraction_method = NONE)

\* a two-page PDF whose first page raised and whose second page was processed
C6_Witness ==
    /\ pdfPc = "done"
    /\ total_pages = 2
    /\ pdf.raised_pages = {0}
    /\ pdf.normal.written
    /\ Len(pdf.normal.cards) = 2
    /\ pdf.normal.cards[2].segment = "text"

\* C7: every card of the written dataset whose extraction_method is "none"
\* has empty text and error = true.
C7_NoneMeansError ==
    \A i \in 1..Len(pdf.normal.cards) :
        pdf.normal.cards[i].extraction_method = NONE =>
            (pdf.normal.cards[i].segment = "" /\ pdf.normal.cards[i].error)

C9_NoOcrAboveThreshold ==
    (tx.log[OCR].loop + tx.log[OCR].prev > 0)
        => (tx.previewed /\ tx.preview.len < min_chars_ocr)

\* a preview of min_chars_ocr characters was returned without OCR, after
\* another strategy had raised
C9_Witness ==
    /\ tx.phase = "returned"
    /\ tx.previewed
    /\ tx.preview.len = min_chars_ocr
    /\ OCR \in Range(scfg.extractors)
    /\ tx.log[OCR].loop + tx.log[OCR].prev = 0
    /\ tx.log[PDFMINER].raised > 0
    /\ tx.method = PDFPLUMBER

\* the strategy was called and each of its calls raised
AlwaysRaised(n) ==
    /\ tx.log[n].loop + tx.log[n].prev >= 1
    /\ tx.log[n].raised = tx.log[n].loop + tx.log[n].prev

\* the chain has left the retry loop of strategy n without an exception
MovedOn(n) ==
    /\ n \in Range(scfg.extractors)
    /\ tx.phase \in {"call", "preview", "returned"}
    /\ (tx.phase = "returned" \/ tx.pos > IndexOf(scfg.extractors, n))

WaitsGrowCapped(sleeps) ==
    /\ \A i \in 1..Len(sleeps) : sleeps[i] <= 10
    /\ \A i \in 1..(Len(sleeps) - 1) : sleeps[i] <= sleeps[i + 1]

\* C10 as claimed: a strategy of the text chain or the table chain every
\* call of which raised has been called exactly MAX_RETRIES times for the
\* page when its chain has moved on, with non-decreasing waits of at most
\* MAX_DELAY.
C10_ExactlyMaxRetries ==
    /\ \A n \in StrategyNames :
        (AlwaysRaised(n) /\ MovedOn(n)) =>
            /\ tx.log[n].loop + tx.log[n].prev = 3
            /\ WaitsGrowCapped(tx.log[n].sleeps)
    /\ (tb.calls >= 1 /\ tb.raised = tb.calls /\ tb.phase = "returned") =>
            /\ tb.calls = 3
            /\ WaitsGrowCapped(tb.sleeps)

\* C10 amended: a strategy every call of which raised is called by the retry
\* loop of its chain at most MAX_RETRIES times, and exactly MAX_RETRIES times
\* when the chain has moved on to the next strategy (or returned) without an
\* exception; a wait follows each attempt but the last, the waits are
\* non-decreasing and at most MAX_DELAY; in the text chain the OCR preview
\* calls a non-OCR strategy at most once more.
C10_RetryBound ==
    /\ \A n \in Range(scfg.extractors) :
        (pdfPc = "page" /\ AlwaysRaised(n)) =>
            /\ tx.log[n].loop <= 3
            /\ tx.log[n].prev <= 1
            /\ (tx.log[n].loop = 3) = MovedOn(n)
            /\ Len(tx.log[n].sleeps) = (IF tx.log[n].loop = 3 THEN 2 ELSE tx.log[n].loop)
            /\ WaitsGrowCapped(tx.log[n].sleeps)
    /\ (tb.calls >= 1 /\ tb.raised = tb.calls) =>
            /\ tb.calls <= 3
            /\ (tb.calls = 3) = (tb.phase = "returned")
            /\ (tb.phase = "returned" => ~tb.found)
            /\ Len(tb.sleeps) = (IF tb.calls = 3 THEN 2 ELSE tb.calls)
            /\ WaitsGrowCapped(tb.sleeps)

\* pdfminer raised in its three attempts and in the preview, and extract
\* returned
C10_Witness ==
    /\ tx.phase = "returned"
    /\ tx.log[PDFMINER].loop = 3
    /\ tx.log[PDFMINER].prev = 1
    /\ tx.log[PDFMINER].raised = 4
    /\ tx.log[PDFMINER].sleeps = <<1, 2>>

(***************************************************************************)
(* Segment ids: validate_structure, merge_datasets.                        *)
(***************************************************************************)
\* C11: validate_structure returns a non-empty error list for every card
\* set in which two cards share a segment_id, and for every card set in
\* which some card has a reserved segment_id.
C11_RejectsDuplicateAndReservedIds ==
    (/\ sv.status # "none"
     /\ \/ \E i, j \in 1..Len(sv.cards) : i # j /\ sv.cards[i].segment_id = sv.cards[j].segment_id
        \/ \E i \in 1..Len(sv.cards) : sv.cards[i].segment_id \in {HEADER_ID, AUDIT_ID, FOOTER_ID})
        => validate_structure(sv.header, sv.cards) # {}

\* the cards have pairwise distinct segment_ids, none of them reserved
DistinctPageIds(cs) ==
    /\ \A i, j \in 1..Len(cs) : i # j => cs[i].segment_id # cs[j].segment_id
    /\ \A i \in 1..Len(cs) : cs[i].segment_id \notin {HEADER_ID, AUDIT_ID, FOOTER_ID}

\* C12: every dataset file the pipeline produces has pairwise distinct card
\* segment_ids, none of them reserved: here, the file merge_datasets wrote
\* and the file read back from it.
C12_MergedIdsDistinct ==
    /\ ioPc = "merged" => DistinctPageIds(CardRecords(disk.chars))
    /\ (ioPc = "loaded" /\ ld.from = "merged" /\ ld.status = "ok") => DistinctPageIds(ld.cards)

(***************************************************************************)
(* Batch driver: checkpoint, retries, crash safety.                        *)
(***************************************************************************)
\* C13: whenever the driver turns to the next file or leaves the loop, the
\* checkpoint file holds the checkpoint in memory and lists every file
\* handled so far in this run (as processed or failed); and a run never
\* calls process_single_book on a book listed in the processed_books of the
\* checkpoint it started from.
C13_CheckpointAfterEachFile ==
    /\ (bPc \in {"attempt", "final"}) =>
          /\ ckDisk.kind # "partial"
          /\ ckDisk.content = ck
          /\ \A k \in 1..Len(pdfs) :
                (k < bIdx \/ bPc = "final") =>
                    /\ ckDisk.kind = "json"
                    /\ pdfs[k] \in Range(ckDisk.content.processed_books)
                                   \cup Range(ckDisk.content.failed_books)
    /\ \A k \in 1..Len(bLog.called) :
          bLog.called[k] \notin Range(bLog.start.processed_books)

\* a second run that started from a checkpoint listing book 1 and handled
\* book 2
C13_Witness ==
    /\ bLog.runs = 2
    /\ bLog.start.processed_books = <<1>>
    /\ bLog.called = <<2>>
    /\ bPc = "final"
    /\ ckDisk.content.processed_books = <<1, 2>>

\* C14: in a run with continue_on_error that was neither interrupted nor
\* killed, every file whose attempts all failed was attempted max_retries
\* times and is recorded in failed_books, a file is recorded there only
\* after max_retries failed attempts, and every file of the list was
\* attempted.
C14_RetriedThenRecorded ==
    (/\ bPc = "down"
     /\ bcfg.continue_on_error
     /\ bLog.exit \in {"0", "exit 1", "system_exit"}
     /\ pdfs # <<>>)
        => \A k \in 1..Len(pdfs) :
              /\ bLog.tries[pdfs[k]] >= 1
              /\ pdfs[k] \notin Range(ck.processed_books) =>
                    /\ bLog.tries[pdfs[k]] = bcfg.max_retries
                    /\ pdfs[k] \in Range(ck.failed_books)

\* C15: at every point of a run, the checkpoint file lists in
\* processed_books every book the run has processed successfully or found
\* processed in its checkpoint, except possibly the book in flight; and a
\* run ended by an interrupt leaves the checkpoint in memory in the file.
C15_CheckpointNeverBehind ==
    /\ (bPc # "down" /\ pdfs # <<>>) =>
          \A b \in bLog.succeeded :
              b # pdfs[bIdx] =>
                  (ckDisk.kind = "json" /\ b \in Range(ckDisk.content.processed_books))
    /\ (bPc = "down" /\ bLog.exit = "exit 130") =>
          (ckDisk.kind = "json" /\ ckDisk.content = ck)

\* C16: in run_batch with continue_on_error off, a file that ended in the
\* failed list is the last file run_single was called for: no later file is
\* processed.
C16_FailedFileStopsBatch ==
    (rb.pc \in {"summary", "done"} /\ ~rb.continue_on_error) =>
        \A i \in 1..Len(rb.failed) : rb.failed[i] = rb.called[Len(rb.called)]

\* the same for the files whose run_single raised: the exception branch is
\* the one place where the loop is left
C16_RaisedFileStopsBatch ==
    (rb.pc \in {"summary", "done"} /\ ~rb.continue_on_error
        /\ StageIndex(rb.start) > StageIndex(rb.end)) =>
        Len(rb.called) <= 1

\* a document-level failure of process_pdf
C17_DocumentFailed == total_pages = 0 \/ pdf.doc_raised

GroupsOf(p) == {k \in 1..Len(ext.duplicates) : p \in Range(ext.duplicates[k].pages)}

\* detect_duplicates has run on ext.loaded
Detected == ext.dedup /\ ext.pc \in {"mark", "audit", "done"}

Marked == ext.dedup /\ ext.pc \in {"audit", "done"}

\* the lowest page number of group k
Canonical(k) ==
    CHOOSE p \in Range(ext.duplicates[k].pages) : \A q \in Range(ext.duplicates[k].pages) : p <= q

\* C19: mark_duplicates keeps the number, the order and the segment_ids (and
\* page numbers and texts) of the cards; in every group each page other than
\* the one with the lowest page number is flagged is_duplicate with
\* duplicate_of that lowest page number, the lowest page is not flagged, and
\* no page outside the groups is flagged.
C19_MarksAllButCanonical ==
    Marked =>
        /\ Len(ext.cards) = Len(ext.loaded)
        /\ \A i \in 1..Len(ext.cards) :
            LET c == ext.cards[i] IN
            /\ c.segment_id = ext.loaded[i].segment_id
            /\ c.page_num = ext.loaded[i].page_num
            /\ c.segment = ext.loaded[i].segment
            /\ \A k \in GroupsOf(c.page_num) :
                IF c.page_num = Canonical(k)
                THEN ~c.is_duplicate
                ELSE c.is_duplicate /\ c.duplicate_of = Canonical(k)
            /\ GroupsOf(c.page_num) = {} => ~c.is_duplicate

\* two equal pages loaded in reverse page order: the first card, page 2, is
\* flagged as a duplicate of page 1
C19_Witness ==
    /\ ext.pc = "audit"
    /\ ext.dedup
    /\ Len(ext.cards) = 2
    /\ ext.cards[1].page_num = 2
    /\ ext.cards[1].is_duplicate
    /\ ext.cards[1].duplicate_of = 1
    /\ ~ext.cards[2].is_duplicate
    /\ ext.marked_count = 1

\* the overlaps audit_continuity recorded for the cards i - 1 and i
OverlapsAt(i) == {ext.overlaps[k].overlap : k \in {k \in 1..Len(ext.overlaps) : ext.overlaps[k].at = i}}

\* a gap is recorded for the cards i - 1 and i
GapAt(i) ==
    \E k \in 1..Len(ext.gaps) :
        /\ ext.gaps[k].from_page = ext.cards[i - 1].page_num
        /\ ext.gaps[k].to_page = ext.cards[i].page_num

NoCommonToken(i) ==
    Range(tokenize(ext.cards[i - 1].segment)) \cap Range(tokenize(ext.cards[i].segment)) = {}

\* C20: after audit_continuity, two adjacent pages with different texts and
\* no token in common have overlap 0.0 and, when the threshold is above 0, a
\* recorded gap and the flag continuity_gap on the later page; two adjacent
\* pages with the same text have overlap 1.0 and no gap.
C20_ZeroOverlapIsGap ==
    ext.pc = "done" =>
        \A i \in 2..Len(ext.cards) :
            IF ext.cards[i - 1].segment = ext.cards[i].segment
            THEN OverlapsAt(i) = {1000} /\ ~GapAt(i) /\ ~ext.cards[i].continuity_gap
            ELSE NoCommonToken(i) =>
                    /\ OverlapsAt(i) = {0}
                    /\ ext.overlap_threshold > 0 => (GapAt(i) /\ ext.cards[i].continuity_gap)

\* the same for the pairs audit_continuity does compare: the later page is
\* not flagged as a duplicate and both pages have a token
C20_ComparedPairs ==
    ext.pc = "done" =>
        \A i \in 2..Len(ext.cards) :
            compared(ext.cards, i) =>
                IF ext.cards[i - 1].segment = ext.cards[i].segment
                THEN OverlapsAt(i) = {1000} /\ ~GapAt(i) /\ ~ext.cards[i].continuity_gap
                ELSE NoCommonToken(i) =>
                        /\ OverlapsAt(i) = {0}
                        /\ ext.overlap_threshold > 0 => (GapAt(i) /\ ext.cards[i].continuity_gap)

\* the three-page document of the scenario: page 2 has the text of page 1,
\* page 3 has another text and no token in common with page 2, every page
\* is at least MIN_PAGE_CHARS long
Scenario ==
    /\ Len(ext.loaded) = 3
    /\ \A i \in 1..3 : ext.loaded[i].page_num = i /\ ~is_short_page(ext.loaded[i].segment)
    /\ ext.loaded[1].segment = ext.loaded[2].segment
    /\ text_hash(ext.loaded[3].segment) # text_hash(ext.loaded[2].segment)
    /\ Range(tokenize(ext.loaded[2].segment)) \cap Range(tokenize(ext.loaded[3].segment)) = {}

ScenarioResult ==
    /\ ext.duplicates = <<[pages |-> <<1, 2>>, similarity |-> 1000]>>
    /\ ~ext.cards[1].is_duplicate
    /\ ext.cards[2].is_duplicate /\ ext.cards[2].duplicate_of = 1
    /\ ~ext.cards[3].is_duplicate
    /\ Len(ext.gaps) = 1
    /\ ext.gaps[1].from_page = 2 /\ ext.gaps[1].to_page = 3

\* C21: on the scenario document, with an overlap threshold above 0,
\* detect_duplicates, mark_duplicates and audit_continuity yield exactly one
\* duplicate group, pages [1, 2], page 2 flagged as a duplicate of page 1,
\* and exactly one continuity gap, from page 2 to page 3.
C21_ScenarioOutcome ==
    (ext.pc = "done" /\ Scenario /\ ext.overlap_threshold > 0) => ScenarioResult

\* the same when pages 2 and 3 have at least one token each
C21_ScenarioWithTokens ==
    (ext.pc = "done" /\ Scenario /\ ext.overlap_threshold > 0
        /\ tokenize(ext.loaded[2].segment) # <<>>
        /\ tokenize(ext.loaded[3].segment) # <<>>) => ScenarioResult

\* the scenario with tokens on pages 2 and 3 is reached
C21_ScenarioReached ==
    /\ ext.pc = "done" /\ Scenario /\ ext.overlap_threshold > 0
    /\ tokenize(ext.loaded[3].segment) # <<>>
    /\ tokenize(ext.loaded[2].segment) # <<>>

FieldsOf(card) == {f \in CardFields : card[f] # ABSENT}

\* C22: the card a stage after structural writes has every field name its
\* input card had.
C22_FieldsOnlyGrow ==
    pipe.stage \in {STRUCTURE_DETECT, SUMMARIZE, EXTENDED, FINALIZE} =>
        FieldsOf(pipe.input) \subseteq FieldsOf(pipe.card)

\* the same for the stages before finalize
C22_FieldsGrowBeforeFinalize ==
    pipe.stage \in {STRUCTURE_DETECT, SUMMARIZE, EXTENDED} =>
        FieldsOf(pipe.input) \subseteq FieldsOf(pipe.card)

\* C23: a stage whose between-stage validation failed (invalid verdict, or
\* the validator raised) is recorded as success, has no entry in errors, has
\* an entry in warnings, and its output is the input of the stage invoked
\* next (and the current input while no stage was invoked after it); a run
\* without a stage error is completed whatever the validation said.
C23_ValidationNeverFailsStage ==
    /\ \A k \in 1..Len(invoked) :
        LET stage == invoked[k].stage IN
        invoked[k].verdict \in {"invalid", "raises"} =>
            /\ results.stages[stage] = "success"
            /\ stage \notin Range(results.errors)
            /\ stage \in Range(results.warnings)
            /\ IF k < Len(invoked)
               THEN invoked[k + 1].input = StageOutput(stage)
               ELSE current_input = StageOutput(stage)
    /\ (runPc = "done" /\ results.status \in {"partial", "failed"}) => results.errors # <<>>
    /\ \A k \in 1..Len(results.warnings) :
        \E j \in 1..Len(invoked) :
            invoked[j].stage = results.warnings[k] /\ invoked[j].verdict \in {"invalid", "raises"}

\* a completed run of structural..structure_detect in which the validator
\* raised on the output of structural and judged the next output invalid
C23_Witness ==
    /\ runPc = "done"
    /\ results.status = "completed"
    /\ Len(invoked) = 2
    /\ invoked[1].stage = STRUCTURAL /\ invoked[1].verdict = "raises"
    /\ invoked[2].verdict = "invalid"
    /\ invoked[2].input = StageOutput(STRUCTURAL)
    /\ Len(results.warnings) = 2

\* a file with begin marker, footer line and end marker, as save completes it
CompleteFile(chars) ==
    /\ Len(chars) >= Len(FooterLine) + 5
    /\ SubSeq(chars, 1, 2) = <<DATASET_BEGIN, "LF">>
    /\ SubSeq(chars, Len(chars) - Len(FooterLine) - 2, Len(chars)) = FooterLine \o <<"LF", DATASET_END, "LF">>

\* C24: whenever save has touched the path, whether it returned or the
\* process stopped inside it, the path holds no file or a complete dataset
\* (begin marker, records, footer, end marker).
C24_SaveIsAtomic ==
    ioPc \in {"saved", "stopped"} => (~disk.exists \/ CompleteFile(disk.chars))

\* the same for the saves that returned
C24_ReturnedSaveIsComplete ==
    ioPc = "saved" => (disk.exists /\ CompleteFile(disk.chars))

\* C25: every table _extract_pdfplumber returns has at least min_rows rows,
\* at least min_cols cells in its first row, and a rectangular 'data' grid:
\* every row of 'data' has exactly 'cols' cells.
C25_AcceptedTablesRectangular ==
    tbl.pc = "done" =>
        \A k \in 1..Len(tbl.result) :
            LET t == tbl.result[k] IN
            /\ t.rows >= tbl.min_rows
            /\ t.cols >= tbl.min_cols
            /\ \A i \in 1..Len(t.data) : Len(t.data[i]) = t.cols

\* the thresholds hold for every returned table and the markdown lines are
\* rectangular
C25_ThresholdsAndMarkdown ==
    tbl.pc = "done" =>
        \A k \in 1..Len(tbl.result) :
            LET t == tbl.result[k] IN
            /\ t.rows >= tbl.min_rows
            /\ t.cols >= tbl.min_cols
            /\ Len(t.data) = t.rows
            /\ \A i \in 1..Len(t.markdown) : Len(t.markdown[i]) = t.cols

\* extract accepted the preview text without calling the OCR strategy
PreviewAccepted ==
    /\ tx.phase = "returned"
    /\ tx.previewed
    /\ tx.preview.len > 0
    /\ tx.text = tx.preview
    /\ tx.log[OCR].loop = 0

\* C26: when extract accepts the preview text without OCR, the method it
\* returns is the strategy whose call produced the preview text.
C26_PreviewMethodIsOrigin ==
    PreviewAccepted => tx.method = tx.preview.src

\* the accepted preview is the text of the first non-OCR strategy whose
\* preview call returned without raising, and the method is pdfplumber
\* whichever strategy that was
C26_PreviewMethodIsPdfplumber ==
    PreviewAccepted =>
        /\ tx.method = PDFPLUMBER
        /\ tx.preview.src # OCR
        /\ tx.log[tx.preview.src].prev >= 1

Succeeded == {st \in StageNames : results.stages[st] = "success"}

\* C27: run_single ends with status partial only if a stage of the planned
\* sequence succeeded; when a run that executed stages ends without any
\* successful stage its status is failed.
C27_PartialNeedsSuccess ==
    runPc = "done" =>
        /\ results.status = "partial" => Succeeded # {}
        /\ (results.errors # <<>> /\ Succeeded = {}) => results.status = "failed"

\* what the status does say: completed without errors, failed when there
\* are as many errors as planned stages, partial in between
C27_StatusCountsErrors ==
    (runPc = "done" /\ results.status \in {"completed", "partial", "failed"}) =>
        /\ results.status = "completed" <=> results.errors = <<>>
        /\ results.status = "failed" <=> Len(results.errors) = Len(stages)
\* the page-by-page process_pdf ends in a state the one-step process_pdf of
\* RunStructural produces, up to the text of the pages that did not raise
ProcessPdfAgrees ==
    pdfPc = "done" =>
        \E o \in {"ok", "raise_before_save", "raise_after_save"} :
            LET left == process_pdf(total_pages, pdf.raised_pages, o) IN
            /\ pdf.returned = left.returned
            /\ pdf.errfile = left.errfile
            /\ pdf.doc_raised = left.doc_raised
            /\ pdf.normal.written = left.normal.written
            /\ Len(pdf.normal.cards) = Len(left.normal.cards)
            /\ \A i \in 1..Len(pdf.normal.cards) :
                    /\ pdf.normal.cards[i].error = left.normal.cards[i].error
                    /\ pdf.normal.cards[i].segment_id = left.normal.cards[i].segment_id

\* whether process_pdf ended in a document-level failure: it returned the
\* error dataset
DocumentLevelFailure == pdfPc = "done" /\ pdf.returned = "error"

\* the iterations of run_single's loop after the structural one
LaterInvocations == {i \in 1..Len(invoked) : invoked[i].stage # STRUCTURAL}

\* C28: when the structural stage ends in a document-level failure,
\* run_single records the structural stage as failed and invokes no later stage
C28_DocumentFailureStopsRun ==
    (runPc = "done" /\ DocumentLevelFailure)
        => /\ results.stages[STRUCTURAL] = "failed"
           /\ LaterInvocations = {}

\* what the code does instead: the structural stage is recorded as a success
\* and the next stage of the plan, if there is one, is invoked on the error
\* dataset
C28_DocumentFailureFlowsOn ==
    (runPc = "done" /\ DocumentLevelFailure)
        => /\ results.stages[STRUCTURAL] = "success"
           /\ Len(stages) >= 2 => (Len(invoked) >= 2 /\ invoked[2].input = ERROR_OUTPUT)

C28_FlowsOnReached ==
    /\ runPc = "done" /\ DocumentLevelFailure /\ Len(invoked) >= 2
    /\ results.status = "completed"

\* a run with continue_on_error that called process_single_book and has ended,
\* not by a KeyboardInterrupt, a kill or a checkpoint that could not be read
EndedAfterCalls ==
    /\ bPc = "down"
    /\ bcfg.continue_on_error
    /\ bLog.called # <<>>
    /\ bLog.exit \in {"0", "exit 1", "system_exit"}

\* C29: with continue_on_error, however run_mvp.main ends for a book (return,
\* exception, sys.exit with a non-zero status), process_single_book returns
\* to process_batch: when the run is over, the last book handed to it is
\* recorded in processed_books or failed_books, and the checkpoint file holds
\* the checkpoint in memory.
C29_EveryEndingReturns ==
    EndedAfterCalls
        => /\ Last(bLog.called) \in Range(ck.processed_books) \cup Range(ck.failed_books)
           /\ ckDisk = [kind |-> "json", content |-> ck]

\* the same for the runs in which run_mvp.main never ended in sys.exit
C29_ReturnsUnlessSystemExit ==
    (EndedAfterCalls /\ bLog.exit # "system_exit")
        => /\ Last(bLog.called) \in Range(ck.processed_books) \cup Range(ck.failed_books)
           /\ ckDisk = [kind |-> "json", content |-> ck]

C29_SystemExitReached ==
    /\ EndedAfterCalls /\ bLog.exit = "system_exit"
    /\ Last(bLog.called) \notin Range(ck.processed_books) \cup Range(ck.failed_books)

\* whether no value occurs twice in the sequence
NoRepeats(seq) == \A i, j \in 1..Len(seq) : seq[i] = seq[j] => i = j

\* C30: whatever runs have shared the checkpoint file, a book has at most one
\* entry in it: none twice in processed_books, none twice in failed_books,
\* none in both lists.
C30_OneEntryPerBook ==
    ckDisk.kind = "json"
        => /\ NoRepeats(ckDisk.content.processed_books)
           /\ NoRepeats(ckDisk.content.failed_books)
           /\ Range(ckDisk.content.processed_books) \cap Range(ckDisk.content.failed_books) = {}

\* what does hold: processed_books never lists a book twice, and within one
\* run a book gets at most one new entry
C30_ProcessedOnce ==
    /\ ckDisk.kind = "json" => NoRepeats(ckDisk.content.processed_books)
    /\ NoRepeats(ck.processed_books)
    /\ Len(ck.processed_books) + Len(ck.failed_books)
           <= Len(bLog.start.processed_books) + Len(bLog.start.failed_books) + Len(pdfs)

C30_FailedThenProcessed ==
    /\ ckDisk.kind = "json" /\ bLog.runs = 2
    /\ Range(ckDisk.content.processed_books) \cap Range(ckDisk.content.failed_books) # {}

C30_FailedTwice ==
    /\ ckDisk.kind = "json" /\ bLog.runs = 2
    /\ ~NoRepeats(ckDisk.content.failed_books)

====
